---- MODULE Spec2Model ----
(***************************************************************************)
(* Model of the bynder-transform-demo functions: the finalize retry loop,  *)
(* the metadata readiness poller, the chunked uploader, address template   *)
(* resolution, the ingestion handler, and the scheduled drain of the       *)
(* pending-upload queue with its read-filter-rewrite removal.              *)
(*                                                                         *)
(* The specifications share the module:                                    *)
(*   SpecFin     one call of finalizeUploadWithRetry, one loop turn a step *)
(*   SpecPoll    one call of fetchAssetInfoWithRetry, one loop turn a step *)
(*   SpecUpload  one call of uploadDatImageToBynder, one request a step    *)
(*   SpecUrls    one call of generateDatUrls                               *)
(*   SpecForm    the multipart form of one chunk POST                      *)
(*   SpecChain   notifications about an asset and its renditions           *)
(*   SpecIngest  one invocation of the ingestion handler                   *)
(*   SpecExplicit one invocation of the explicit finalize-request handler  *)
(*   Spec        the queue, the scheduled drain, and concurrent enqueues   *)
(*   SpecStored  the scheduled drain over a stored list of records         *)
(*   SpecOverlap two invocations of the scheduled drain, every call answered *)
(***************************************************************************)
EXTENDS Integers, Sequences, FiniteSets, TLC

VARIABLES
    fin,            \* finalizeUploadWithRetry: the running call
    poll,           \* fetchAssetInfoWithRetry: the running call
    up,             \* uploadDatImageToBynder: the running call
    dat,            \* generateDatUrls: the call and its result
    ing,            \* the ingestion handler: the running invocation
    form,           \* the multipart form of one chunk POST
    chain,          \* an asset and the notifications sent about it and its renditions
    second,         \* a second drain invocation running beside the first
    variant,        \* which scheduled-finalizer file is deployed
    queue,          \* the Redis list "pending-uploads": stored entries, in order
    now,            \* wall clock, in minutes
    nextId,         \* next id an enqueue will use
    faults,         \* queue-transport faults injected so far
    passes,         \* drain invocations started so far
    pc,             \* the drain's position
    pendingUploads, \* handler: const pendingUploads
    readyUploads,   \* handler: const readyUploads
    idx,            \* handler: position of the for-of loop over readyUploads
    completedIds,   \* handler: const completedIds
    results,        \* handler: const results
    remaining,      \* removeCompletedUploads: const remaining
    pushIdx,        \* removeCompletedUploads: position of the re-push loop
    response,       \* what the last drain invocation returned
    hist            \* observation of the run (not program state)

vars == <<fin, poll, up, dat, ing, form, chain, second, variant, queue, now, nextId, faults, passes, pc,
          pendingUploads, readyUploads, idx, completedIds, results,
          remaining, pushIdx, response, hist>>

queueVars == <<variant, queue, now, nextId, faults, passes, pc,
               pendingUploads, readyUploads, idx, completedIds, results,
               remaining, pushIdx, response, hist>>

\* the function calls modelled one at a time
callVars == <<fin, poll, up, dat, ing, form, chain, second>>

Last(s) == s[Len(s)]

(***************************************************************************)
(* finalizeUploadWithRetry                                                 *)
(***************************************************************************)

\* JS falsy import id (undefined / null / 0 / ""): `return null`, `!importId`
NoImport == 0

ImportIds == {41, 42}

NotReadyMessage == "Upload not ready"

\* retries / delay defaults of the four copies of the function
RetriesScheduled == 3
DelayScheduled == 2000
RetriesLegacy == 5
RetriesExplicit == 10
DelayExplicit == 3000
RetriesInline == 3
DelayInline == 3000

FinVariants == {"scheduled", "legacy", "explicit", "inline"}

FinRetries(v) ==
    CASE v = "scheduled" -> RetriesScheduled
      [] v = "legacy"    -> RetriesLegacy
      [] v = "explicit"  -> RetriesExplicit
      [] v = "inline"    -> RetriesInline

FinDelay(v) ==
    CASE v = "scheduled" -> DelayScheduled
      [] v = "legacy"    -> DelayScheduled
      [] v = "explicit"  -> DelayExplicit
      [] v = "inline"    -> DelayInline

\* the copies in the scheduled finalizers wrap the fetch in try/catch
FinCatches(v) == v \in {"scheduled", "legacy"}

\* What one finalize POST can come back with: fetch rejects (thrown), or a
\* response with a status (ok) and a body that parses as JSON or not.
FinThrow ==
    [thrown |-> TRUE, ok |-> FALSE, parsed |-> FALSE,
     importId |-> NoImport, retry |-> FALSE, message |-> ""]

FinResponses ==
    {FinThrow}
    \cup [thrown : {FALSE}, ok : BOOLEAN, parsed : {FALSE},
          importId : {NoImport}, retry : {FALSE}, message : {""}]
    \cup [thrown : {FALSE}, ok : BOOLEAN, parsed : {TRUE},
          importId : ImportIds \cup {NoImport}, retry : BOOLEAN,
          message : {"", NotReadyMessage, "Invalid upload"}]

Req == [op |-> "finalize", ms |-> 0]
Sleep(ms) == [op |-> "sleep", ms |-> ms]

FinStart(v) ==
    [variant |-> v, i |-> 0, status |-> "running", importId |-> NoImport,
     events |-> <<>>]

\* `finalizeRes.ok && finalizeJson?.importId`
FinSuccess(r) == r.ok /\ r.parsed /\ r.importId # NoImport

\* mutant: any response that is not ok counts as a retry signal
FinRetrySignalNotOk(r) == (r.parsed /\ (r.retry \/ r.message = NotReadyMessage)) \/ ~r.ok

\* `finalizeJson?.retry || finalizeJson?.message === "Upload not ready"`
FinRetrySignal(r) == r.parsed /\ (r.retry \/ r.message = NotReadyMessage)

\* the catch block: sleep unless this was the last turn
FinCatch(st) ==
    [st EXCEPT !.i = st.i + 1,
               !.events = st.events \o <<Req>> \o
                   (IF st.i < FinRetries(st.variant) - 1
                       THEN <<Sleep(DelayScheduled)>> ELSE <<>>)]

\* `return null` after the loop, and `return null` on any other response
FinReturnNull(st) == [st EXCEPT !.status = "returned", !.importId = NoImport]

\* mutant: the retry branch continues without the delay
FinalizeAttemptNoSleep(st, r) ==
    IF r.thrown
    THEN IF FinCatches(st.variant)
         THEN FinCatch(st)
         ELSE [st EXCEPT !.status = "threw", !.events = st.events \o <<Req>>]
    ELSE IF FinSuccess(r)
    THEN [st EXCEPT !.status = "returned", !.importId = r.importId,
                    !.events = st.events \o <<Req>>]
    ELSE IF FinRetrySignal(r)
    THEN [st EXCEPT !.i = st.i + 1, !.events = st.events \o <<Req>>]
    ELSE FinReturnNull([st EXCEPT !.events = st.events \o <<Req>>])

\* The body of `for (let i = 0; i < retries; i++)`: one turn, given what the
\* POST of this turn comes back with.
FinalizeAttempt(st, r) ==
    IF r.thrown
    THEN IF FinCatches(st.variant)
         THEN FinCatch(st)
         ELSE [st EXCEPT !.status = "threw", !.events = st.events \o <<Req>>]
    ELSE IF FinSuccess(r)
    THEN [st EXCEPT !.status = "returned", !.importId = r.importId,
                    !.events = st.events \o <<Req>>]
    ELSE IF FinRetrySignal(r)
    THEN [st EXCEPT !.i = st.i + 1,
                    !.events = st.events \o <<Req, Sleep(FinDelay(st.variant))>>]
    ELSE FinReturnNull([st EXCEPT !.events = st.events \o <<Req>>])

\* mutant: `i <= retries`
FinLoopOnOffByOne(st) == st.i <= FinRetries(st.variant)

\* the loop condition `i < retries`
FinLoopOn(st) == st.i < FinRetries(st.variant)

\* the whole call, over the responses the remote side gives in turn
RECURSIVE FinalizeRun(_, _)
FinalizeRun(st, stream) ==
    IF st.status # "running" THEN st
    ELSE IF ~FinLoopOn(st) THEN FinReturnNull(st)
    ELSE IF stream = <<>> THEN st
    ELSE FinalizeRun(FinalizeAttempt(st, Head(stream)), Tail(stream))

FinalizeUploadWithRetry(v, stream) == FinalizeRun(FinStart(v), stream)

\* how the claims read a response (the spec's words, not the code's tests)
FinClass(r) ==
    IF r.thrown THEN "throw"
    ELSE IF r.ok /\ r.parsed /\ r.importId # NoImport THEN "success"
    ELSE IF r.parsed /\ (r.retry \/ r.message = NotReadyMessage) THEN "notReady"
    ELSE "other"

FinInit ==
    fin \in {[call |-> FinStart(v), seen |-> <<>>, last |-> FinThrow]
                : v \in FinVariants}

FinTurn ==
    /\ fin.call.status = "running"
    /\ FinLoopOn(fin.call)
    /\ \E r \in FinResponses :
          fin' = [call |-> FinalizeAttempt(fin.call, r),
                  seen |-> Append(fin.seen, FinClass(r)),
                  last |-> r]

FinExhausted ==
    /\ fin.call.status = "running"
    /\ ~FinLoopOn(fin.call)
    /\ fin' = [fin EXCEPT !.call = FinReturnNull(fin.call)]

FinRequests(st) == Len(SelectSeq(st.events, LAMBDA e : e.op = "finalize"))
FinSleeps(st) == Len(SelectSeq(st.events, LAMBDA e : e.op = "sleep"))

(***************************************************************************)
(* fetchAssetInfoWithRetry                                                 *)
(***************************************************************************)

\* retries / delayMs defaults of the copies of the poller
PollRetries == 6
PollDelay == 4000
PollRetriesPlain == 3
PollDelayPlain == 2000

\* "guarded": the copies that catch a body that does not parse and test
\* transformBaseUrl.trim().length; "plain": the copy that does neither
PollVariants == {"guarded", "plain"}

PollMax(v) == IF v = "guarded" THEN PollRetries ELSE PollRetriesPlain
PollWait(v) == IF v = "guarded" THEN PollDelay ELSE PollDelayPlain

\* A string is a sequence of characters; " " stands for any white space.
MaxUrlLen == 2
Chars == {" ", "u"}
Strings == UNION {[1..n -> Chars] : n \in 0..MaxUrlLen}

IsSpace(c) == c = " "

\* String.prototype.trim
RECURSIVE TrimLeft(_)
TrimLeft(s) ==
    IF s # <<>> /\ IsSpace(Head(s)) THEN TrimLeft(Tail(s)) ELSE s
RECURSIVE TrimRight(_)
TrimRight(s) ==
    IF s # <<>> /\ IsSpace(Last(s)) THEN TrimRight(SubSeq(s, 1, Len(s) - 1)) ELSE s
Trim(s) == TrimRight(TrimLeft(s))

\* What one metadata GET can come back with: fetch rejects (thrown); a body
\* that is not JSON; the JSON value null; or an object, whose transformBaseUrl
\* is absent (has = FALSE) or a string.
NoMeta == [thrown |-> FALSE, body |-> "none", has |-> FALSE, transformBaseUrl |-> <<>>]

PollResponses ==
    [thrown : {TRUE}, body : {"none"}, has : {FALSE}, transformBaseUrl : {<<>>}]
    \cup [thrown : {FALSE}, body : {"unparseable", "null"}, has : {FALSE},
          transformBaseUrl : {<<>>}]
    \cup [thrown : {FALSE}, body : {"object"}, has : {FALSE}, transformBaseUrl : {<<>>}]
    \cup [thrown : {FALSE}, body : {"object"}, has : {TRUE}, transformBaseUrl : Strings]

PollFetch == [op |-> "fetch", ms |-> 0]

PollStart(v) ==
    [variant |-> v, i |-> 0, status |-> "running", assetInfo |-> NoMeta,
     events |-> <<>>]

\* `assetInfo.transformBaseUrl && assetInfo.transformBaseUrl.trim().length > 0`
\* and, in the plain copy, `... && assetInfo.transformBaseUrl.length > 0`
PollReady(v, r) ==
    /\ r.has
    /\ r.transformBaseUrl # <<>>
    /\ IF v = "guarded" THEN Len(Trim(r.transformBaseUrl)) > 0
                        ELSE Len(r.transformBaseUrl) > 0

\* `return null`
PollReturnNull(st) == [st EXCEPT !.status = "returned", !.assetInfo = NoMeta]

\* mutant: the delay comes before the readiness test
PollAttemptSleepFirst(st, r) ==
    LET fetched == [st EXCEPT !.events = st.events \o <<PollFetch>>] IN
    IF r.thrown THEN [fetched EXCEPT !.status = "threw"]
    ELSE IF r.body = "unparseable"
    THEN IF st.variant = "guarded" THEN PollReturnNull(fetched)
                                   ELSE [fetched EXCEPT !.status = "threw"]
    ELSE IF r.body = "null" THEN [fetched EXCEPT !.status = "threw"]
    ELSE IF PollReady(st.variant, r)
    THEN [fetched EXCEPT !.status = "returned", !.assetInfo = r,
                         !.events = fetched.events \o <<Sleep(PollWait(st.variant))>>]
    ELSE [fetched EXCEPT !.i = st.i + 1,
                         !.events = fetched.events \o <<Sleep(PollWait(st.variant))>>]

\* The body of `for (let i = 0; i < retries; i++)`: one turn.
PollAttempt(st, r) ==
    LET fetched == [st EXCEPT !.events = st.events \o <<PollFetch>>] IN
    IF r.thrown THEN [fetched EXCEPT !.status = "threw"]
    ELSE IF r.body = "unparseable"
    THEN IF st.variant = "guarded" THEN PollReturnNull(fetched)
                                   ELSE [fetched EXCEPT !.status = "threw"]
    ELSE IF r.body = "null" THEN [fetched EXCEPT !.status = "threw"]
    ELSE IF PollReady(st.variant, r)
    THEN [fetched EXCEPT !.status = "returned", !.assetInfo = r]
    ELSE [fetched EXCEPT !.i = st.i + 1,
                         !.events = fetched.events \o <<Sleep(PollWait(st.variant))>>]

\* mutant: one turn too many
PollLoopOnOffByOne(st) == st.i <= PollMax(st.variant)

\* the loop condition `i < retries`
PollLoopOn(st) == st.i < PollMax(st.variant)

\* how the claims read a response
PollClass(r) ==
    IF r.thrown THEN "throw"
    ELSE IF r.body = "unparseable" THEN "unparseable"
    ELSE IF r.body = "null" THEN "null"
    ELSE IF r.has /\ r.transformBaseUrl # <<>> THEN "nonEmpty"
    ELSE "empty"

PollInit ==
    poll \in {[call |-> PollStart(v), seen |-> <<>>, ready |-> <<>>,
                first |-> NoMeta] : v \in PollVariants}

PollTurn ==
    /\ poll.call.status = "running"
    /\ PollLoopOn(poll.call)
    /\ \E r \in PollResponses :
          poll' = [call |-> PollAttempt(poll.call, r),
                   seen |-> Append(poll.seen, PollClass(r)),
                   ready |-> Append(poll.ready,
                                    PollClass(r) \in {"empty", "nonEmpty"}
                                        /\ PollReady(poll.call.variant, r)),
                   first |-> IF poll.seen = <<>> THEN r ELSE poll.first]

PollExhausted ==
    /\ poll.call.status = "running"
    /\ ~PollLoopOn(poll.call)
    /\ poll' = [poll EXCEPT !.call = PollReturnNull(poll.call)]

PollFetches(st) == Len(SelectSeq(st.events, LAMBDA e : e.op = "fetch"))
PollSleeps(st) == Len(SelectSeq(st.events, LAMBDA e : e.op = "sleep"))

(***************************************************************************)
(* The pending-upload queue and the scheduled drain                        *)
(***************************************************************************)

MaxRecords == 2     \* records ever enqueued
MaxPasses == 2      \* drain invocations
MaxNow == 3        \* the clock stops here
MaxFaults == 1      \* queue-transport faults in one run

\* `const minAge = 3 * 60 * 1000`, in minutes
MinAgeMinutes == 3

\* a field read from a value that does not have it (JS undefined)
Undefined == -1

\* "gated": the scheduled finalizer with the age filter and the double parse;
\* "legacy": the copy without the filter, which parses each entry once
DrainVariants == {"gated", "legacy"}

DrainFinVariant(v) == IF v = "gated" THEN "scheduled" ELSE "legacy"

\* A stored entry is the text JSON.stringify([JSON.stringify(record)]): the
\* record's JSON text, wrapped in a one-element list, as JSON text again.
Encode(u) == [list |-> <<[text |-> u]>>]

\* mutant: a single JSON.parse; what it yields has none of the record's fields
DecodeGatedSingleParse(e) ==
    [id |-> Undefined, createdAt |-> Undefined, totalChunks |-> Undefined]

\* gated: JSON.parse(item), unwrap parsed[0], JSON.parse again -> the record
DecodeGated(e) == e.list[1].text

\* legacy: item is a string, not an array, so JSON.parse(item) is the
\* one-element list itself; id, createdAt, ... read from it are undefined
DecodeLegacy(e) ==
    [id |-> Undefined, createdAt |-> Undefined, totalChunks |-> Undefined]

Decode(v, e) == IF v = "gated" THEN DecodeGated(e) ELSE DecodeLegacy(e)

\* data.result.map(...): the decoded upload, with the stored record beside it
\* (raw) so that the run can be observed
DecodeAll(v, q) == [k \in 1..Len(q) |-> [u |-> Decode(v, q[k]), raw |-> q[k].list[1].text]]

\* getPendingUploads: the list on a good read, [] when the read fails
GetPendingUploads(v, q, readOk) == IF readOk THEN DecodeAll(v, q) ELSE <<>>

\* `now - new Date(upload.createdAt).getTime() >= minAge`; an unparseable
\* date gives NaN, and NaN >= minAge is false
IsReady(t, u) == u.createdAt # Undefined /\ t - u.createdAt >= MinAgeMinutes

\* handler: readyUploads (the legacy copy loops over pendingUploads itself)
ReadyUploads(v, t, list) ==
    IF v = "gated" THEN SelectSeq(list, LAMBDA x : IsReady(t, x.u)) ELSE list

\* what the finalize POSTs of one item can come back with
DrainResponses ==
    {r \in FinResponses :
        \/ r.thrown
        \/ r.ok /\ r.parsed /\ r.importId # NoImport /\ ~r.retry /\ r.message = ""
        \/ ~r.ok /\ r.parsed /\ r.importId = NoImport /\ r.retry /\ r.message = ""
        \/ ~r.ok /\ r.parsed /\ r.importId = NoImport /\ ~r.retry /\ r.message = "Invalid upload"}

FinalizeOutcomesScheduled ==
    {FinalizeUploadWithRetry("scheduled", s).importId
        : s \in [1..RetriesScheduled -> DrainResponses]}

FinalizeOutcomesLegacy ==
    {FinalizeUploadWithRetry("legacy", s).importId
        : s \in [1..RetriesLegacy -> DrainResponses]}

FinalizeOutcomes(v) ==
    IF v = "gated" THEN FinalizeOutcomesScheduled ELSE FinalizeOutcomesLegacy

\* saveAsNewAsset: the POST comes back ok, not ok, or fetch rejects
SaveResponses == {"ok", "notOk", "throw"}
SaveAsNewAsset(resp) == resp = "ok"

\* mutant: no `continue` after a failed finalize
ProcessUploadNoContinue(x, importId, saveResp) ==
    IF SaveAsNewAsset(saveResp)
    THEN [result |-> [success |-> TRUE, importId |-> importId, error |-> ""],
          completed |-> TRUE, saveCalled |-> TRUE, saveArg |-> importId,
          saveOk |-> TRUE]
    ELSE [result |-> [success |-> FALSE, importId |-> NoImport, error |-> "Save failed"],
          completed |-> FALSE, saveCalled |-> TRUE, saveArg |-> importId,
          saveOk |-> FALSE]

\* The body of `for (const upload of readyUploads)`: finalize, then save.
\* importId is what finalizeUploadWithRetry returned, saveResp what the save
\* POST would come back with.  The outcome: the results entry, whether the id
\* goes to completedIds, and the requests made (saveArg: the id saved under).
ProcessUpload(x, importId, saveResp) ==
    IF importId = NoImport
    THEN [result |-> [success |-> FALSE, importId |-> NoImport, error |-> "Finalize failed"],
          completed |-> FALSE, saveCalled |-> FALSE, saveArg |-> NoImport,
          saveOk |-> FALSE]
    ELSE IF SaveAsNewAsset(saveResp)
    THEN [result |-> [success |-> TRUE, importId |-> importId, error |-> ""],
          completed |-> TRUE, saveCalled |-> TRUE, saveArg |-> importId,
          saveOk |-> TRUE]
    ELSE [result |-> [success |-> FALSE, importId |-> NoImport, error |-> "Save failed"],
          completed |-> FALSE, saveCalled |-> TRUE, saveArg |-> importId,
          saveOk |-> FALSE]

\* mutant: removeCompletedUploads is called after every pass
RemovalNeededAlways(ids) == TRUE

\* `if (completedIds.length > 0)`
RemovalNeeded(ids) == Len(ids) > 0

InSeq(x, s) == \E k \in 1..Len(s) : s[k] = x

\* mutant: the survivors are kept in reverse order
RemainingReversed(allUploads, ids) ==
    LET kept == SelectSeq(allUploads, LAMBDA x : ~InSeq(x.u.id, ids)) IN
    [k \in 1..Len(kept) |-> kept[Len(kept) + 1 - k]]

\* removeCompletedUploads: `allUploads.filter(u => !ids.includes(u.id))`
Remaining(allUploads, ids) == SelectSeq(allUploads, LAMBDA x : ~InSeq(x.u.id, ids))

\* the handler's return value
Response(msg, res) == [statusCode |-> 200, message |-> msg, results |-> res]
NoResponse == [statusCode |-> 0, message |-> "", results |-> <<>>]

Records(q) == {q[k].list[1].text : k \in 1..Len(q)}

NewHist ==
    [start |-> <<>>, enq |-> {}, log |-> <<>>, faulted |-> FALSE,
     now |-> 0, atReturn |-> <<>>, returned |-> FALSE]

QueueInit ==
    /\ variant \in DrainVariants
    /\ queue = <<>>
    /\ now = 0
    /\ nextId = 1
    /\ faults = 0
    /\ passes = 0
    /\ pc = "idle"
    /\ pendingUploads = <<>>
    /\ readyUploads = <<>>
    /\ idx = 1
    /\ completedIds = <<>>
    /\ results = <<>>
    /\ remaining = <<>>
    /\ pushIdx = 1
    /\ response = NoResponse
    /\ hist = [pass |-> NewHist, saves |-> [i \in 1..MaxRecords |-> 0], lost |-> {}]

RawSeq(q) == [k \in 1..Len(q) |-> q[k].list[1].text]

Range(f) == {f[k] : k \in DOMAIN f}

\* observation at the moment the handler returns: the queue as it is then, and
\* the records that were in the list when the pass read it, or were appended
\* during the pass, that are gone without having been finalized and saved
Completed(h, r) == \E k \in 1..Len(h.pass.log) : h.pass.log[k].raw = r /\ h.pass.log[k].completed

LostNow(h, q) ==
    {r \in Range(h.pass.start) \cup {e.rec : e \in h.pass.enq} :
        r \notin Range(RawSeq(q)) /\ ~Completed(h, r)}

AtReturn(h, q, fault) ==
    [h EXCEPT !.pass.atReturn = RawSeq(q),
              !.pass.returned = TRUE,
              !.pass.faulted = @ \/ fault,
              !.lost = @ \cup LostNow(h, q)]

\* the handler returns
Return(msg, res, q, fault) ==
    /\ pc' = "idle"
    /\ response' = Response(msg, res)
    /\ hist' = AtReturn(hist, q, fault)

\* enqueue(record): the ingestion path appends a new record (rpush)
Enqueue ==
    /\ nextId <= MaxRecords
    /\ LET rec == [id |-> nextId, createdAt |-> now, totalChunks |-> 1] IN
          /\ queue' = Append(queue, Encode(rec))
          /\ hist' = IF pc = "idle" THEN hist
                     ELSE [hist EXCEPT !.pass.enq = @ \cup {[rec |-> rec, phase |-> pc]}]
    /\ nextId' = nextId + 1
    /\ UNCHANGED <<callVars, variant, now, faults, passes, pc, pendingUploads,
                   readyUploads, idx, completedIds, results, remaining, pushIdx,
                   response>>

\* time passes
Tick ==
    /\ pc = "idle"
    /\ now < MaxNow
    /\ now' = now + 1
    /\ UNCHANGED <<callVars, variant, queue, nextId, faults, passes, pc,
                   pendingUploads, readyUploads, idx, completedIds, results,
                   remaining, pushIdx, response, hist>>

\* handler, up to the loop: read the list, apply the age filter
DrainStart(readOk) ==
    LET list == GetPendingUploads(variant, queue, readOk)
        ready == ReadyUploads(variant, now, list)
        h == [hist EXCEPT !.pass = [NewHist EXCEPT !.start = RawSeq(queue),
                                                   !.now = now,
                                                   !.faulted = ~readOk]]
    IN
    /\ pc = "idle"
    /\ passes < MaxPasses
    /\ passes' = passes + 1
    /\ faults' = IF readOk THEN faults ELSE faults + 1
    /\ pendingUploads' = list
    /\ readyUploads' = ready
    /\ idx' = 1
    /\ completedIds' = <<>>
    /\ results' = <<>>
    /\ remaining' = <<>>
    /\ pushIdx' = 1
    /\ IF Len(list) = 0
       THEN /\ pc' = "idle"
            /\ response' = Response("No pending uploads", <<>>)
            /\ hist' = AtReturn(h, queue, FALSE)
       ELSE IF Len(ready) = 0
       THEN /\ pc' = "idle"
            /\ response' = Response("No uploads ready yet - all too new", <<>>)
            /\ hist' = AtReturn(h, queue, FALSE)
       ELSE /\ pc' = "loop"
            /\ response' = NoResponse
            /\ hist' = h
    /\ UNCHANGED <<callVars, variant, queue, now, nextId>>

DrainRead == DrainStart(TRUE)

DrainReadFails ==
    /\ faults < MaxFaults
    /\ DrainStart(FALSE)

\* mutant: a failed item ends the loop
ProcessItemAbort ==
    /\ pc = "loop"
    /\ idx <= Len(readyUploads)
    /\ \E importId \in FinalizeOutcomes(variant), saveResp \in SaveResponses :
          LET x == readyUploads[idx]
              o == ProcessUpload(x, importId, saveResp)
              ids == IF o.completed THEN Append(completedIds, x.u.id) ELSE completedIds
              res == Append(results, o.result)
              entry == [raw |-> x.raw, importId |-> importId,
                        saveCalled |-> o.saveCalled, saveArg |-> o.saveArg,
                        saveOk |-> o.saveOk, completed |-> o.completed]
              h == [hist EXCEPT !.pass.log = Append(@, entry),
                                !.saves[x.raw.id] = IF o.saveOk THEN @ + 1 ELSE @]
          IN
          /\ completedIds' = ids
          /\ results' = res
          /\ idx' = idx + 1
          /\ IF idx < Len(readyUploads) /\ o.completed
             THEN pc' = "loop" /\ response' = response /\ hist' = h
             ELSE IF RemovalNeeded(ids)
             THEN pc' = "rmRead" /\ response' = response /\ hist' = h
             ELSE /\ pc' = "idle"
                  /\ response' = Response("Scheduled finalization complete", res)
                  /\ hist' = AtReturn(h, queue, FALSE)
    /\ UNCHANGED <<callVars, variant, queue, now, nextId, faults, passes,
                   pendingUploads, readyUploads, remaining, pushIdx>>

\* one turn of the loop over readyUploads; after the last turn, either
\* removeCompletedUploads starts or the handler returns
ProcessItem ==
    /\ pc = "loop"
    /\ idx <= Len(readyUploads)
    /\ \E importId \in FinalizeOutcomes(variant), saveResp \in SaveResponses :
          LET x == readyUploads[idx]
              o == ProcessUpload(x, importId, saveResp)
              ids == IF o.completed THEN Append(completedIds, x.u.id) ELSE completedIds
              res == Append(results, o.result)
              entry == [raw |-> x.raw, importId |-> importId,
                        saveCalled |-> o.saveCalled, saveArg |-> o.saveArg,
                        saveOk |-> o.saveOk, completed |-> o.completed]
              h == [hist EXCEPT !.pass.log = Append(@, entry),
                                !.saves[x.raw.id] = IF o.saveOk THEN @ + 1 ELSE @]
          IN
          /\ completedIds' = ids
          /\ results' = res
          /\ idx' = idx + 1
          /\ IF idx < Len(readyUploads)
             THEN pc' = "loop" /\ response' = response /\ hist' = h
             ELSE IF RemovalNeeded(ids)
             THEN pc' = "rmRead" /\ response' = response /\ hist' = h
             ELSE /\ pc' = "idle"
                  /\ response' = Response("Scheduled finalization complete", res)
                  /\ hist' = AtReturn(h, queue, FALSE)
    /\ UNCHANGED <<callVars, variant, queue, now, nextId, faults, passes,
                   pendingUploads, readyUploads, remaining, pushIdx>>

\* removeCompletedUploads: read the whole list again and filter it
RmReadStep(readOk) ==
    /\ pc = "rmRead"
    /\ remaining' = Remaining(GetPendingUploads(variant, queue, readOk), completedIds)
    /\ pc' = "rmDel"
    /\ faults' = IF readOk THEN faults ELSE faults + 1
    /\ hist' = IF readOk THEN hist ELSE [hist EXCEPT !.pass.faulted = TRUE]
    /\ UNCHANGED <<callVars, variant, queue, now, nextId, passes, pendingUploads,
                   readyUploads, idx, completedIds, results, pushIdx, response>>

RmRead == RmReadStep(TRUE)

RmReadFails ==
    /\ faults < MaxFaults
    /\ RmReadStep(FALSE)

\* mutant: the list is not cleared before the re-push
RmDelSkipped ==
    /\ pc = "rmDel"
    /\ queue' = queue
    /\ pushIdx' = 1
    /\ IF Len(remaining) > 0
       THEN pc' = "rmPush" /\ response' = response /\ hist' = hist
       ELSE Return("Scheduled finalization complete", results, queue, FALSE)
    /\ UNCHANGED <<callVars, variant, now, nextId, faults, passes, pendingUploads,
                   readyUploads, idx, completedIds, results, remaining>>

\* removeCompletedUploads: DEL pending-uploads, then the re-push loop if
\* anything remains, else the handler returns
RmDel ==
    /\ pc = "rmDel"
    /\ queue' = <<>>
    /\ pushIdx' = 1
    /\ IF Len(remaining) > 0
       THEN pc' = "rmPush" /\ response' = response /\ hist' = hist
       ELSE Return("Scheduled finalization complete", results, <<>>, FALSE)
    /\ UNCHANGED <<callVars, variant, now, nextId, faults, passes, pendingUploads,
                   readyUploads, idx, completedIds, results, remaining>>

\* the DEL rejects: the catch block logs it and removeCompletedUploads ends
RmDelThrows ==
    /\ pc = "rmDel"
    /\ faults < MaxFaults
    /\ faults' = faults + 1
    /\ Return("Scheduled finalization complete", results, queue, TRUE)
    /\ UNCHANGED <<callVars, variant, queue, now, nextId, passes, pendingUploads,
                   readyUploads, idx, completedIds, results, remaining, pushIdx>>

\* removeCompletedUploads: RPUSH of remaining[pushIdx]
RmPush ==
    /\ pc = "rmPush"
    /\ pushIdx <= Len(remaining)
    /\ queue' = Append(queue, Encode(remaining[pushIdx].u))
    /\ pushIdx' = pushIdx + 1
    /\ IF pushIdx < Len(remaining)
       THEN pc' = "rmPush" /\ response' = response /\ hist' = hist
       ELSE Return("Scheduled finalization complete", results, queue', FALSE)
    /\ UNCHANGED <<callVars, variant, now, nextId, faults, passes, pendingUploads,
                   readyUploads, idx, completedIds, results, remaining>>

\* an RPUSH rejects: the catch block logs it and the loop is abandoned
RmPushThrows ==
    /\ pc = "rmPush"
    /\ pushIdx <= Len(remaining)
    /\ faults < MaxFaults
    /\ faults' = faults + 1
    /\ Return("Scheduled finalization complete", results, queue, TRUE)
    /\ UNCHANGED <<callVars, variant, queue, now, nextId, passes, pendingUploads,
                   readyUploads, idx, completedIds, results, remaining, pushIdx>>

(***************************************************************************)
(* uploadDatImageToBynder                                                  *)
(***************************************************************************)

\* const CHUNK_SIZE = 5 * 1024 * 1024
MiB == 1024 * 1024
CHUNK_SIZE == 5 * MiB

\* buffer lengths tried: up to MaxFullChunks whole chunks plus a remainder
MaxFullChunks == 2
Offsets == {0, 1, 2 * MiB, 4 * MiB, CHUNK_SIZE - 1}
Lengths == {k * CHUNK_SIZE + d : k \in 0..MaxFullChunks, d \in Offsets}

\* "full": the uploader that registers only multi-chunk uploads, finalizes
\* with retries and saves; "early": the uploader that always registers,
\* finalizes once and never saves
UpVariants == {"full", "early"}

\* Math.ceil(buffer.length / CHUNK_SIZE)
Ceil(a, b) == IF a % b = 0 THEN a \div b ELSE (a \div b) + 1
TotalChunks(len) == Ceil(len, CHUNK_SIZE)

Min(a, b) == IF a < b THEN a ELSE b
\* `start = i * CHUNK_SIZE`, `end = Math.min(start + CHUNK_SIZE, buffer.length)`
ChunkStart(i) == i * CHUNK_SIZE
ChunkEnd(i, len) == Min(ChunkStart(i) + CHUNK_SIZE, len)

\* a request (or timer) of the upload flow; n is the 1-based chunk number
UpEvent(op, n, a, b) == [op |-> op, n |-> n, start |-> a, end |-> b]
WaitBeforeFinalize == 5000

InitResponses == {"ok", "noIds", "unparseable", "notOk", "throw"}
StepResponses == {"ok", "notOk", "throw"}

UpIdle ==
    [variant |-> "full", hasBuffer |-> FALSE, hasInfo |-> FALSE, len |-> 0,
     status |-> "idle", pc |-> "init", i |-> 0, totalChunks |-> 0,
     fin |-> FinStart("inline"), importId |-> NoImport, failedAt |-> "none",
     events |-> <<>>, log |-> <<>>]

\* uploadDatImageToBynder(presetName, buffer, assetInfo) is called
UpStart(v, hasBuffer, hasInfo, len) ==
    [UpIdle EXCEPT !.variant = v, !.hasBuffer = hasBuffer, !.hasInfo = hasInfo,
                   !.len = len, !.status = "running"]

\* the request ev goes out; log keeps how it was answered (observation)
UpSend(st, ev, ok) ==
    [st EXCEPT !.events = Append(st.events, ev),
               !.log = Append(st.log, [op |-> ev.op, n |-> ev.n, ok |-> ok])]

\* `return` (or the catch block, which only logs) at step op
UpReturn(st, op) == [st EXCEPT !.status = "returned", !.failedAt = op]

\* the 5 s wait comes before the finalize of the full copy only
UpBeforeFinalize(v) == IF v = "full" THEN "wait" ELSE "finalize"

\* `if (totalChunks > 1)` around the register request; the early copy has no
\* such test
UpRegisterNeeded(v, totalChunks) == v = "early" \/ totalChunks > 1

\* where the flow stands once chunk loop index i has been reached
UpAfterChunk(st) ==
    IF st.i < st.totalChunks THEN "chunk"
    ELSE IF UpRegisterNeeded(st.variant, st.totalChunks) THEN "register"
    ELSE UpBeforeFinalize(st.variant)

\* mutant: a rejected chunk is skipped and the loop goes on
UpChunkStepNoAbort(st, r) ==
    LET sent == UpSend(st, UpEvent("chunk", st.i + 1, ChunkStart(st.i),
                                   ChunkEnd(st.i, st.len)), r = "ok") IN
    IF r = "throw" THEN UpReturn(sent, "chunk")
    ELSE LET on == [sent EXCEPT !.i = st.i + 1] IN
         [on EXCEPT !.pc = UpAfterChunk(on)]

\* one turn of `for (let i = 0; i < totalChunks; i++)`
UpChunkStep(st, r) ==
    LET sent == UpSend(st, UpEvent("chunk", st.i + 1, ChunkStart(st.i),
                                   ChunkEnd(st.i, st.len)), r = "ok") IN
    IF r # "ok" THEN UpReturn(sent, "chunk")
    ELSE LET on == [sent EXCEPT !.i = st.i + 1] IN
         [on EXCEPT !.pc = UpAfterChunk(on)]

\* the guard on buffer and assetInfo, then POST /api/upload/init
UpInitStep(st, r) ==
    IF ~st.hasBuffer \/ ~st.hasInfo THEN UpReturn(st, "guard")
    ELSE LET sent == UpSend(st, UpEvent("init", 0, 0, st.len), r = "ok") IN
         IF r # "ok" THEN UpReturn(sent, "init")
         ELSE LET on == [sent EXCEPT !.totalChunks = TotalChunks(st.len)] IN
              [on EXCEPT !.pc = UpAfterChunk(on)]

\* mutant: a rejected register request does not end the flow
UpRegisterStepNoAbort(st, r) ==
    LET sent == UpSend(st, UpEvent("register", st.totalChunks, 0, 0), r = "ok") IN
    IF r = "throw" THEN UpReturn(sent, "register")
    ELSE [sent EXCEPT !.pc = UpBeforeFinalize(st.variant)]

\* POST /api/v4/upload/<uploadId> with the chunk numbers
UpRegisterStep(st, r) ==
    LET sent == UpSend(st, UpEvent("register", st.totalChunks, 0, 0), r = "ok") IN
    IF r # "ok" THEN UpReturn(sent, "register")
    ELSE [sent EXCEPT !.pc = UpBeforeFinalize(st.variant)]

\* `await new Promise((resolve) => setTimeout(resolve, 5000))`
UpWaitStep(st) ==
    [st EXCEPT !.events = Append(st.events, UpEvent("sleep", 0, 0, WaitBeforeFinalize)),
               !.pc = "finalize"]

\* the requests and timers a finalize turn added, as upload events
UpFinEvents(before, after) ==
    LET added == SubSeq(after.events, Len(before.events) + 1, Len(after.events)) IN
    [k \in 1..Len(added) |-> UpEvent(added[k].op, 0, 0, added[k].ms)]

\* full: one turn of the inline finalizeUploadWithRetry, and what the caller
\* does with its result (`if (!finalizeJson?.importId) return`)
UpFinalizeFull(st, r) ==
    LET f == FinalizeAttempt(st.fin, r)
        g == IF f.status = "running" /\ ~FinLoopOn(f) THEN FinReturnNull(f) ELSE f
        sent == [st EXCEPT !.fin = g,
                           !.events = st.events \o UpFinEvents(st.fin, g),
                           !.log = Append(st.log, [op |-> "finalize", n |-> 0,
                                                   ok |-> FinClass(r) = "success"])] IN
    IF g.status = "running" THEN sent
    ELSE IF g.status = "returned" /\ g.importId # NoImport
    THEN [sent EXCEPT !.importId = g.importId, !.pc = "save"]
    ELSE UpReturn(sent, "finalize")

\* early: one POST /api/v4/upload/<uploadId>/ ends the flow either way
UpFinalizeEarly(st, r) ==
    LET sent == UpSend(st, UpEvent("finalize", 0, 0, 0), ~r.thrown /\ r.ok) IN
    IF r.thrown \/ ~r.ok THEN UpReturn(sent, "finalize")
    ELSE [sent EXCEPT !.status = "returned"]

UpFinalizeStep(st, r) ==
    IF st.variant = "full" THEN UpFinalizeFull(st, r) ELSE UpFinalizeEarly(st, r)

\* POST /api/v4/media/save/<importId>
UpSaveStep(st, r) ==
    LET sent == UpSend(st, UpEvent("save", 0, 0, st.importId), r = "ok") IN
    IF r # "ok" THEN UpReturn(sent, "save")
    ELSE [sent EXCEPT !.status = "returned"]

UpRunning(op) == up.status = "running" /\ up.pc = op

UpInit ==
    /\ UpRunning("init")
    /\ \E r \in InitResponses : up' = UpInitStep(up, r)

UpChunk ==
    /\ UpRunning("chunk")
    /\ \E r \in StepResponses : up' = UpChunkStep(up, r)

UpRegister ==
    /\ UpRunning("register")
    /\ \E r \in StepResponses : up' = UpRegisterStep(up, r)

UpWait ==
    /\ UpRunning("wait")
    /\ up' = UpWaitStep(up)

UpFinalize ==
    /\ UpRunning("finalize")
    /\ \E r \in FinResponses : up' = UpFinalizeStep(up, r)

UpSave ==
    /\ UpRunning("save")
    /\ \E r \in StepResponses : up' = UpSaveStep(up, r)

(***************************************************************************)
(* generateDatUrls                                                         *)
(***************************************************************************)

\* A transform-base address is a string over "/", the word "transform" and
\* two other letters, each standing for a run of characters without "/".
MaxBaseLen == 6
BaseChars == {"/", "transform", "R", "s"}
Bases == UNION {[1..n -> BaseChars] : n \in 0..MaxBaseLen}

\* `const presets = ["TestPreset", "crop300"]`, and shorter lists
PresetLists == {<<>>, <<"crop300">>, <<"TestPreset", "crop300">>}

\* assetInfo as generateDatUrls reads it: null, or an object whose
\* transformBaseUrl is absent (has = FALSE) or a string
DatInfos ==
    [null : {TRUE}, has : {FALSE}, transformBaseUrl : {<<>>}]
    \cup [null : {FALSE}, has : {FALSE}, transformBaseUrl : {<<>>}]
    \cup [null : {FALSE}, has : {TRUE}, transformBaseUrl : Bases]

\* String.prototype.split("/")
RECURSIVE Split(_)
Split(str) ==
    IF \A k \in 1..Len(str) : str[k] # "/" THEN <<str>>
    ELSE LET k == CHOOSE j \in 1..Len(str) :
                      str[j] = "/" /\ \A h \in 1..(j - 1) : str[h] # "/" IN
         <<SubSeq(str, 1, k - 1)>> \o Split(SubSeq(str, k + 1, Len(str)))

\* Array.prototype.pop: the removed element (undefined on an empty array,
\* which a template literal prints as the word "undefined") and the rest
Popped(parts) == IF parts = <<>> THEN <<"undefined">> ELSE Last(parts)
AfterPop(parts) == IF parts = <<>> THEN <<>> ELSE SubSeq(parts, 1, Len(parts) - 1)

\* `https://jakob-spott.bynder.com/transform/`
DatPrefix == <<"https://jakob-spott.bynder.com", "/", "transform", "/">>

\* mutant: id and slug change places in the template
DatUrlSwapped(preset, id, slug) == DatPrefix \o <<preset, "/">> \o slug \o <<"/">> \o id

\* `https://jakob-spott.bynder.com/transform/${preset}/${id}/${slug}`
DatUrl(preset, id, slug) == DatPrefix \o <<preset, "/">> \o id \o <<"/">> \o slug

\* generateDatUrls(assetInfo, presets): the mapping preset -> address
GenerateDatUrls(info, presets) ==
    IF info.null \/ ~info.has \/ info.transformBaseUrl = <<>>
    THEN [x \in {} |-> <<>>]
    ELSE LET parts == Split(info.transformBaseUrl)
             slug == Popped(parts)
             id == Popped(AfterPop(parts)) IN
         [x \in Range(presets) |-> DatUrl(x, id, slug)]

DatIdle == dat = [info |-> [null |-> TRUE, has |-> FALSE, transformBaseUrl |-> <<>>],
                  presets |-> <<>>, called |-> FALSE, urls |-> [x \in {} |-> <<>>]]

Resolve ==
    /\ ~dat.called
    /\ dat' = [dat EXCEPT !.called = TRUE,
                          !.urls = GenerateDatUrls(dat.info, dat.presets)]

(***************************************************************************)
(* The multipart form of a chunk POST (uploadDatImageToBynder, step 3)     *)
(***************************************************************************)

\* a form value: a text, or for n > 0 the text followed by "/p<n>"; the
\* decimal text of a number n is Val("", n)
Val(text, n) == [text |-> text, n |-> n]

Field(k, v) == [k |-> k, v |-> v]

\* initJson.multipart_params: `key` and any of the other parameters, in the
\* order the response lists them
BaseKeys == {"K1", "K2"}
OptionalParams == <<"acl", "Filename", "name">>
MultipartParams ==
    {<<Field("key", Val(b, 0))>> \o
       SelectSeq([k \in 1..Len(OptionalParams) |->
                      Field(OptionalParams[k], Val("init", 0))],
                 LAMBDA f : f.k \in chosen)
        : b \in BaseKeys, chosen \in SUBSET Range(OptionalParams)}

MpKey(mp) == (CHOOSE k \in 1..Len(mp) : mp[k].k = "key")

\* `${keyBase}/p${chunkNumber}`
ChunkKey(mp, chunkNumber) == Val(mp[MpKey(mp)].v.text, chunkNumber)

FileName == Val("a__TestPreset.jpg", 0)

\* the form.append calls of one loop turn, in order
ChunkForm(v, mp, filename, chunkNumber, totalChunks) ==
    IF v = "early"
    THEN SelectSeq(mp, LAMBDA f : f.k \notin {"key", "Filename", "name"})
         \o <<Field("key", ChunkKey(mp, chunkNumber)),
              Field("Filename", ChunkKey(mp, chunkNumber)),
              Field("name", filename),
              Field("chunk", Val("", chunkNumber)),
              Field("chunks", Val("", totalChunks)),
              Field("file", Val("bytes", chunkNumber))>>
    ELSE mp
         \o <<Field("name", filename),
              Field("chunk", Val("", chunkNumber)),
              Field("chunks", Val("", totalChunks)),
              Field("Filename", filename),
              Field("file", Val("bytes", chunkNumber))>>

FormIdle ==
    form = [built |-> FALSE, variant |-> "full", mp |-> <<>>, chunkNumber |-> 0,
            totalChunks |-> 0, fields |-> <<>>]

\* one turn of the chunk loop builds the form of chunk i of totalChunks
BuildForm ==
    /\ ~form.built
    /\ \E v \in UpVariants, mp \in MultipartParams,
          total \in 1..(MaxFullChunks + 1) :
          \E i \in 1..total :
             form' = [built |-> TRUE, variant |-> v, mp |-> mp, chunkNumber |-> i,
                      totalChunks |-> total,
                      fields |-> ChunkForm(v, mp, FileName, i, total)]

(***************************************************************************)
(* The ingestion handler                                                   *)
(***************************************************************************)

\* "full": the handler with the loop guard, addresses taken from
\* assetInfo.thumbnails, and the uploader that finalizes and saves;
\* "early": the handler without the guard, addresses from generateDatUrls
IngestVariants == {"full", "early"}

\* An asset name is a string over "_" and one other letter.
MaxNameLen == 2
Names == UNION {[1..n -> {"_", "a"}] : n \in 0..MaxNameLen}

\* String.prototype.includes
Includes(str, sub) ==
    \E k \in 0..(Len(str) - Len(sub)) : SubSeq(str, k + 1, k + Len(sub)) = sub

\* The notification: event.body is not JSON; or it is an object that is no
\* "Notification" or has no Message; or the Message is not JSON; or the
\* Message is an object with or without media_id, and with media absent
\* (hasMedia = FALSE) or an object whose name may be absent or empty.
NoMedia == [body |-> "invalid", message |-> "none", mediaId |-> FALSE,
            hasMedia |-> FALSE, name |-> <<>>]
Notifications ==
    [body : {"invalid", "other"}, message : {"none"}, mediaId : {FALSE},
     hasMedia : {FALSE}, name : {<<>>}]
    \cup [body : {"notification"}, message : {"none", "invalid"}, mediaId : {FALSE},
          hasMedia : {FALSE}, name : {<<>>}]
    \cup [body : {"notification"}, message : {"ok"}, mediaId : BOOLEAN,
          hasMedia : {FALSE}, name : {<<>>}]
    \cup [body : {"notification"}, message : {"ok"}, mediaId : BOOLEAN,
          hasMedia : {TRUE}, name : Names]

\* `const presets = ["TestPreset", "crop300"]`
Presets == <<"TestPreset", "crop300">>

\* what the handler lets the metadata GET answer, and the buffers a download
\* can give
IngestPollResponses ==
    {r \in PollResponses : r.body # "object" \/ r.transformBaseUrl \in {<<>>, <<"u">>}}
IngestLengths == {4 * MiB, 12 * MiB}

\* assetInfo.thumbnails: a mapping from names to addresses, <<>> standing
\* for a name that is absent or has an empty address; it may hold names
\* that are no configured preset
ThumbKeys == Range(Presets) \cup {"webimage"}
Addresses == {<<>>, <<"x">>, <<"y">>}
Thumbnails == {t \in [ThumbKeys -> Addresses] : t["webimage"] # <<"y">>}
NoThumbs == [x \in ThumbKeys |-> <<>>]

IngestStart(v) ==
    [variant |-> v, pc |-> "start", input |-> NoMedia, hasInfo |-> FALSE,
     thumbs |-> NoThumbs, datUrls |-> <<>>, k |-> 1, downloaded |-> <<>>, j |-> 1,
     log |-> <<>>, statusCode |-> 0, message |-> ""]

\* `return { statusCode, body }`
IngestReturn(st, code, msg) ==
    [st EXCEPT !.pc = "done", !.statusCode = code, !.message = msg]

\* mutant: the guard tests for the separator "_a_"
LoopGuardSingle(v, e) ==
    v = "full" /\ e.hasMedia /\ e.name # <<>> /\ Includes(e.name, <<"_", "a", "_">>)

\* `originalMedia && originalMedia.name && originalMedia.name.includes("__")`;
\* the early handler has no such test
LoopGuard(v, e) ==
    v = "full" /\ e.hasMedia /\ e.name # <<>> /\ Includes(e.name, <<"_", "_">>)

\* mutant: a body that is not JSON is taken for one without a media id
IngestReceiveStepLenient(st, e) ==
    LET got == [st EXCEPT !.input = e] IN
    IF ~(e.body = "notification" /\ e.message = "ok" /\ e.mediaId)
    THEN IngestReturn(got, 200, "No mediaId found in webhook")
    ELSE IF LoopGuard(st.variant, e)
    THEN IngestReturn(got, 200, "Skipped - asset is a transformed derivative")
    ELSE [got EXCEPT !.pc = "poll"]

\* STEP 1, 2 and 2.5: parse the wrapper and the message, leave when there
\* is no media id or the asset is a derivative
IngestReceiveStep(st, e) ==
    LET got == [st EXCEPT !.input = e] IN
    IF e.body = "invalid" THEN IngestReturn(got, 400, "Invalid JSON")
    ELSE IF ~(e.body = "notification" /\ e.message = "ok" /\ e.mediaId)
    THEN IngestReturn(got, 200, "No mediaId found in webhook")
    ELSE IF LoopGuard(st.variant, e)
    THEN IngestReturn(got, 200, "Skipped - asset is a transformed derivative")
    ELSE [got EXCEPT !.pc = "poll"]

\* where the handler goes once datUrls is known, and once the download
\* loop has ended: the download and upload blocks are skipped when they have
\* nothing to work on
IngestAfterResolve(st) ==
    IF st.hasInfo /\ st.datUrls # <<>> THEN "download" ELSE "respond"
IngestAfterDownload(st) ==
    IF st.k <= Len(st.datUrls) THEN "download"
    ELSE IF st.hasInfo /\ st.downloaded # <<>> THEN "upload"
    ELSE "respond"

IngestEvent(op, preset) == [op |-> op, preset |-> preset]

\* STEP 3/4: one turn of fetchAssetInfoWithRetry, and `let assetInfo = await
\* fetchAssetInfoWithRetry(mediaId)` once it has ended; th is
\* assetInfo.thumbnails, which only the full handler reads
IngestPollStep(st, call, th) ==
    IF call.status = "running" THEN st
    ELSE IF call.status = "threw" THEN [st EXCEPT !.pc = "threw"]
    ELSE [st EXCEPT !.pc = "resolve",
                    !.hasInfo = call.assetInfo # NoMeta,
                    !.thumbs = IF call.assetInfo # NoMeta /\ st.variant = "full"
                               THEN th ELSE NoThumbs]

PollTurnOf(call, r) ==
    LET c == PollAttempt(call, r) IN
    IF c.status = "running" /\ ~PollLoopOn(c) THEN PollReturnNull(c) ELSE c

\* mutant: a preset without an address gets an entry too
DatEntriesUnfiltered(urls) ==
    LET ps == SelectSeq(Presets, LAMBDA x : x \in DOMAIN urls) IN
    [k \in 1..Len(ps) |-> [preset |-> ps[k], url |-> urls[ps[k]]]]

\* datUrls as Object.entries lists it: the configured presets, in their
\* order, that urls has a non-empty address for
DatEntries(urls) ==
    LET ps == SelectSeq(Presets, LAMBDA x : x \in DOMAIN urls /\ urls[x] # <<>>) IN
    [k \in 1..Len(ps) |-> [preset |-> ps[k], url |-> urls[ps[k]]]]

\* mutant: the addresses are collected whether or not assetInfo is there
IngestResolveUnguarded(st, urls) ==
    LET got == [st EXCEPT !.datUrls = DatEntries(urls),
                          !.log = Append(st.log, IngestEvent("resolve", ""))] IN
    [got EXCEPT !.hasInfo = TRUE, !.pc = IngestAfterResolve([got EXCEPT !.hasInfo = TRUE])]

\* `if (assetInfo && assetInfo.thumbnails)` / `if (assetInfo)`: datUrls gets
\* its entries, in the order of presets; urls is the mapping the addresses
\* are taken from
IngestResolveStep(st, urls) ==
    IF ~st.hasInfo THEN [st EXCEPT !.pc = IngestAfterResolve(st)]
    ELSE LET got == [st EXCEPT !.datUrls = DatEntries(urls),
                               !.log = Append(st.log, IngestEvent("resolve", ""))] IN
         [got EXCEPT !.pc = IngestAfterResolve(got)]

\* the GET of a rendition: it rejects, answers without success, or gives
\* len bytes
DownloadResponses ==
    [thrown : {TRUE}, ok : {FALSE}, len : {0}]
    \cup [thrown : {FALSE}, ok : {FALSE}, len : {0}]
    \cup [thrown : {FALSE}, ok : {TRUE}, len : IngestLengths]

\* mutant: a download that fails ends the download loop
IngestDownloadStepAbort(st, r) ==
    LET preset == st.datUrls[st.k].preset
        got == [st EXCEPT !.log = Append(st.log, IngestEvent("download", preset)),
                          !.k = IF ~r.thrown /\ r.ok THEN st.k + 1
                                ELSE Len(st.datUrls) + 1,
                          !.downloaded = IF ~r.thrown /\ r.ok
                                         THEN Append(st.downloaded,
                                                     [preset |-> preset, len |-> r.len])
                                         ELSE st.downloaded] IN
    [got EXCEPT !.pc = IngestAfterDownload(got)]

\* one turn of `for (const [presetName, url] of Object.entries(datUrls))`:
\* downloadDatImage gives a buffer or null
IngestDownloadStep(st, r) ==
    LET preset == st.datUrls[st.k].preset
        got == [st EXCEPT !.log = Append(st.log, IngestEvent("download", preset)),
                          !.k = st.k + 1,
                          !.downloaded = IF ~r.thrown /\ r.ok
                                         THEN Append(st.downloaded,
                                                     [preset |-> preset, len |-> r.len])
                                         ELSE st.downloaded] IN
    [got EXCEPT !.pc = IngestAfterDownload(got)]

\* one turn of `for (const [presetName, buffer] of Object.entries(downloadedImages))`
IngestUploadStep(st) ==
    [st EXCEPT !.log = Append(st.log, IngestEvent("upload", st.downloaded[st.j].preset)),
               !.j = st.j + 1]

IngestReceive ==
    /\ ing.pc = "start"
    /\ \E e \in Notifications : ing' = IngestReceiveStep(ing, e)
    /\ UNCHANGED <<poll, up, dat>>

IngestPoll ==
    /\ ing.pc = "poll"
    /\ \E r \in IngestPollResponses, th \in Thumbnails :
          /\ poll' = [poll EXCEPT !.call = PollTurnOf(poll.call, r)]
          /\ ing' = IngestPollStep(ing, PollTurnOf(poll.call, r), th)
    /\ UNCHANGED <<up, dat>>

IngestResolve ==
    /\ ing.pc = "resolve"
    /\ IF ing.variant = "full" \/ ~ing.hasInfo
       THEN /\ ing' = IngestResolveStep(ing, ing.thumbs)
            /\ dat' = dat
       ELSE LET info == [null |-> FALSE, has |-> TRUE,
                         transformBaseUrl |-> poll.call.assetInfo.transformBaseUrl]
                urls == GenerateDatUrls(info, Presets) IN
            /\ dat' = [info |-> info, presets |-> Presets, called |-> TRUE,
                       urls |-> urls]
            /\ ing' = IngestResolveStep(ing, urls)
    /\ UNCHANGED <<poll, up>>

IngestDownload ==
    /\ ing.pc = "download"
    /\ \E r \in DownloadResponses : ing' = IngestDownloadStep(ing, r)
    /\ UNCHANGED <<poll, up, dat>>

\* mutant: the uploader is called without `await`
IngestUploadNoAwait ==
    /\ ing.pc = "upload"
    /\ ing.j <= Len(ing.downloaded)
    /\ up' = UpStart(ing.variant, TRUE, TRUE, ing.downloaded[ing.j].len)
    /\ ing' = IngestUploadStep(ing)
    /\ UNCHANGED <<poll, dat>>

IngestUpload ==
    /\ ing.pc = "upload"
    /\ up.status # "running"
    /\ ing.j <= Len(ing.downloaded)
    /\ up' = UpStart(ing.variant, TRUE, TRUE, ing.downloaded[ing.j].len)
    /\ ing' = IngestUploadStep(ing)
    /\ UNCHANGED <<poll, dat>>

\* STEP 5: `return { statusCode: 200, ... }`
IngestRespond ==
    /\ \/ ing.pc = "respond"
       \/ ing.pc = "upload" /\ up.status # "running" /\ ing.j > Len(ing.downloaded)
    /\ ing' = IngestReturn(ing, 200, "Webhook processed including DAT download and upload flow")
    /\ UNCHANGED <<poll, up, dat>>

\* a step of the upload the handler is waiting for
IngestUploading ==
    /\ ing.pc = "upload"
    /\ UpInit \/ UpChunk \/ UpRegister \/ UpWait \/ UpFinalize \/ UpSave
    /\ UNCHANGED <<ing, poll, dat>>

(***************************************************************************)
(* A second invocation of the scheduled finalizer, started while the first *)
(* is running.  Its loop over readyUploads makes no queue call: it is one  *)
(* step that ends with the ids it completed; removeCompletedUploads then   *)
(* runs call by call, as in the first invocation.                          *)
(***************************************************************************)

SecondStart ==
    [pc |-> "idle", completedIds |-> <<>>, remaining |-> <<>>, pushIdx |-> 1]

SecondIdle == second = SecondStart

\* the ids of the ready uploads the loop completed, in the order of the list
CompletedOf(ready, done) ==
    LET kept == SelectSeq([k \in 1..Len(ready) |-> [k |-> k, id |-> ready[k].u.id]],
                          LAMBDA x : x.k \in done) IN
    [k \in 1..Len(kept) |-> kept[k].id]

\* handler: read, filter, loop; `done` are the uploads finalized and saved
SecondDrain ==
    /\ second.pc = "idle"
    /\ pc # "idle"
    /\ LET list == GetPendingUploads(variant, queue, TRUE)
           ready == ReadyUploads(variant, now, list) IN
       \E done \in SUBSET (1..Len(ready)) :
          LET ids == CompletedOf(ready, done) IN
          second' = [second EXCEPT !.completedIds = ids,
                                   !.pc = IF RemovalNeeded(ids)
                                          THEN "rmRead" ELSE "done"]
    /\ UNCHANGED <<fin, poll, up, dat, ing, form, chain>>
    /\ UNCHANGED queueVars

\* removeCompletedUploads: read the list again and filter it
SecondRmRead ==
    /\ second.pc = "rmRead"
    /\ second' = [second EXCEPT
                     !.remaining = Remaining(GetPendingUploads(variant, queue, TRUE),
                                             second.completedIds),
                     !.pc = "rmDel"]
    /\ UNCHANGED <<fin, poll, up, dat, ing, form, chain>>
    /\ UNCHANGED queueVars

\* removeCompletedUploads: DEL pending-uploads
SecondRmDel ==
    /\ second.pc = "rmDel"
    /\ queue' = <<>>
    /\ second' = [second EXCEPT !.pushIdx = 1,
                                !.pc = IF Len(second.remaining) > 0
                                       THEN "rmPush" ELSE "done"]
    /\ UNCHANGED <<fin, poll, up, dat, ing, form, chain>>
    /\ UNCHANGED <<variant, now, nextId, faults, passes, pc, pendingUploads,
                   readyUploads, idx, completedIds, results, remaining, pushIdx,
                   response, hist>>

\* removeCompletedUploads: RPUSH of remaining[pushIdx]
SecondRmPush ==
    /\ second.pc = "rmPush"
    /\ queue' = Append(queue, Encode(second.remaining[second.pushIdx].u))
    /\ second' = [second EXCEPT !.pushIdx = second.pushIdx + 1,
                                !.pc = IF second.pushIdx < Len(second.remaining)
                                       THEN "rmPush" ELSE "done"]
    /\ UNCHANGED <<fin, poll, up, dat, ing, form, chain>>
    /\ UNCHANGED <<variant, now, nextId, faults, passes, pc, pendingUploads,
                   readyUploads, idx, completedIds, results, remaining, pushIdx,
                   response, hist>>

(***************************************************************************)
(* File names of uploaded renditions, and the notifications that follow    *)
(***************************************************************************)

MaxDepth == 2

\* names of assets in the portal: "a" a letter, " " a character the
\* sanitizer replaces
AssetNames == UNION {[1..n -> {"_", "a", " "}] : n \in 0..MaxNameLen}

\* the characters outside [a-zA-Z0-9-_]
Replaced(c) == c \in {" ", "."}

\* `originalName.replace(/[^a-zA-Z0-9-_]+/g, "-")`: every run of other
\* characters becomes one "-"
RECURSIVE Sanitize(_)
Sanitize(str) ==
    IF str = <<>> THEN <<>>
    ELSE IF ~Replaced(Head(str)) THEN <<Head(str)>> \o Sanitize(Tail(str))
    ELSE IF Len(str) > 1 /\ Replaced(str[2]) THEN Sanitize(Tail(str))
    ELSE <<"-">> \o Sanitize(Tail(str))

Extensions == {"jpg", "png"}

\* `${sanitizedOriginal}__${presetName}.${ext}`, with
\* `assetInfo.name || "DAT-asset"` for the original name
FileNameOf(name, preset, ext) ==
    Sanitize(IF name = <<>> THEN <<"DAT-asset">> ELSE name)
        \o <<"_", "_", preset, ".", ext>>

\* the media object of a notification: it carries the asset's name, or it
\* has no name, or the message has no media object
Summaries == {"named", "unnamed", "absent"}

NotificationFor(name, summary) ==
    [body |-> "notification", message |-> "ok", mediaId |-> TRUE,
     hasMedia |-> summary # "absent",
     name |-> IF summary = "named" THEN name ELSE <<>>]

\* depth 0: an asset the pipeline did not make; depth n + 1: a rendition the
\* pipeline saved for an asset of depth n
ChainStart(v, name) ==
    [variant |-> v, name |-> name, depth |-> 0, summary |-> "absent",
     outcome |-> "none"]

ChainIdle == chain = ChainStart("full", <<>>)

\* a notification about the asset arrives: the handler leaves at the loop
\* guard, or it goes on and the uploader saves a rendition under the generated
\* name (the metadata's name is the asset's name); the chain goes on with
\* that rendition
Renotify ==
    /\ chain.depth < MaxDepth
    /\ \E summary \in Summaries, preset \in Range(Presets), ext \in Extensions :
          IF LoopGuard(chain.variant, NotificationFor(chain.name, summary))
          THEN chain' = [chain EXCEPT !.summary = summary, !.outcome = "skipped"]
          ELSE chain' = [chain EXCEPT !.summary = summary, !.outcome = "saved",
                                      !.name = FileNameOf(chain.name, preset, ext),
                                      !.depth = chain.depth + 1]

(***************************************************************************)
(* The explicit finalize-request handler (finalize-upload.js).  It shares  *)
(* the loop variables of the drain: readyUploads holds `uploads`, idx the  *)
(* position of the for-of loop, results and response as in the drain.      *)
(***************************************************************************)

MaxUploads == 2

\* an element of body.uploads: a pending-upload object, or null
UploadItems ==
    [null : {FALSE}, preset : Range(Presets)]
    \cup {[null |-> TRUE, preset |-> ""]}

UploadLists == UNION {[1..n -> UploadItems] : n \in 0..MaxUploads}

\* event.body: text that is not JSON, JSON without `uploads`, JSON whose
\* `uploads` is not an array, or JSON with an `uploads` array
ExplicitBodies ==
    {[json |-> FALSE, uploads |-> "missing", list |-> <<>>],
     [json |-> TRUE, uploads |-> "missing", list |-> <<>>],
     [json |-> TRUE, uploads |-> "notArray", list |-> <<>>]}
    \cup {[json |-> TRUE, uploads |-> "array", list |-> l] : l \in UploadLists}

ExplicitResponse(code, msg, res) ==
    [statusCode |-> code, message |-> msg, results |-> res,
     successCount |-> Len(SelectSeq(res, LAMBDA x : x.success)),
     failureCount |-> Len(res) - Len(SelectSeq(res, LAMBDA x : x.success))]

\* the returned failureCount is `uploads.length - successCount`
ExplicitProcessed(uploads, res) ==
    [statusCode |-> 200, message |-> "Processed", results |-> res,
     successCount |-> Len(SelectSeq(res, LAMBDA x : x.success)),
     failureCount |-> Len(uploads) - Len(SelectSeq(res, LAMBDA x : x.success))]

\* `!uploads || !Array.isArray(uploads) || uploads.length === 0`
ExplicitInvalid(b) == b.uploads # "array" \/ Len(b.list) = 0

\* the body of the try block after finalizeUploadWithRetry came back (call is
\* the finished call), saveResp what the save POST would come back with;
\* saveAsNewAsset has no catch here, a rejected fetch lands in the handler's
ExplicitResult(call, saveResp) ==
    IF call.status = "threw"
    THEN [success |-> FALSE, importId |-> NoImport, error |-> "thrown"]
    ELSE IF call.importId = NoImport
    THEN [success |-> FALSE, importId |-> NoImport,
          error |-> "Failed to finalize upload after retries"]
    ELSE IF saveResp = "throw"
    THEN [success |-> FALSE, importId |-> NoImport, error |-> "thrown"]
    ELSE IF SaveAsNewAsset(saveResp)
    THEN [success |-> TRUE, importId |-> call.importId, error |-> ""]
    ELSE [success |-> FALSE, importId |-> call.importId,
          error |-> "Failed to save as new asset"]

ExplicitIdle ==
    /\ variant = "gated"
    /\ queue = <<>>
    /\ now = 0
    /\ nextId = 1
    /\ faults = 0
    /\ passes = 0
    /\ pc = "exStart"
    /\ pendingUploads = <<>>
    /\ readyUploads = <<>>
    /\ idx = 1
    /\ completedIds = <<>>
    /\ results = <<>>
    /\ remaining = <<>>
    /\ pushIdx = 1
    /\ response = NoResponse
    /\ hist = [pass |-> NewHist, saves |-> [i \in 1..MaxRecords |-> 0], lost |-> {}]

explicitFrame == <<poll, up, dat, ing, form, chain, second, variant, queue, now, nextId, faults, passes,
                   pendingUploads, completedIds, remaining, pushIdx, hist>>

\* parse the body, validate `uploads`
ExplicitReceive ==
    /\ pc = "exStart"
    /\ \E b \in ExplicitBodies :
          IF ~b.json
          THEN /\ response' = ExplicitResponse(400, "Invalid JSON in request body", <<>>)
               /\ pc' = "exDone"
               /\ readyUploads' = readyUploads
          ELSE IF ExplicitInvalid(b)
          THEN /\ response' = ExplicitResponse(400,
                                  "Missing or invalid 'uploads' array in request body", <<>>)
               /\ pc' = "exDone"
               /\ readyUploads' = readyUploads
          ELSE /\ response' = response
               /\ pc' = "exLoop"
               /\ readyUploads' = b.list
    /\ UNCHANGED <<fin, idx, results>>
    /\ UNCHANGED explicitFrame

\* `const { uploadId, ... } = upload;` stands before the try block: a null
\* element makes the handler throw; otherwise finalizeUploadWithRetry starts
ExplicitTake ==
    /\ pc = "exLoop"
    /\ idx <= Len(readyUploads)
    /\ IF readyUploads[idx].null
       THEN pc' = "exThrew" /\ fin' = fin
       ELSE /\ pc' = "exFinalize"
            /\ fin' = [call |-> FinStart("explicit"), seen |-> <<>>, last |-> FinThrow]
    /\ UNCHANGED <<readyUploads, idx, results, response>>
    /\ UNCHANGED explicitFrame

\* one turn of the finalize loop of the running call
ExplicitFinalize ==
    /\ pc = "exFinalize"
    /\ fin.call.status = "running"
    /\ IF FinLoopOn(fin.call)
       THEN \E r \in DrainResponses :
               fin' = [fin EXCEPT !.call = FinalizeAttempt(fin.call, r)]
       ELSE fin' = [fin EXCEPT !.call = FinReturnNull(fin.call)]
    /\ UNCHANGED <<pc, readyUploads, idx, results, response>>
    /\ UNCHANGED explicitFrame

\* the rest of the loop body: save, push the result; after the last upload
\* the handler returns 200
ExplicitItem ==
    /\ pc = "exFinalize"
    /\ fin.call.status # "running"
    /\ \E saveResp \in SaveResponses :
          LET o == ExplicitResult(fin.call, saveResp)
              res == Append(results, o) IN
          /\ results' = res
          /\ idx' = idx + 1
          /\ IF idx < Len(readyUploads)
             THEN pc' = "exLoop" /\ response' = response
             ELSE /\ pc' = "exDone"
                  /\ response' = ExplicitProcessed(readyUploads, res)
    /\ UNCHANGED <<fin, readyUploads>>
    /\ UNCHANGED explicitFrame

(***************************************************************************)
(* Specifications                                                          *)
(***************************************************************************)

FinIdle == fin = [call |-> FinStart("scheduled"), seen |-> <<>>, last |-> FinThrow]
PollIdle ==
    poll = [call |-> PollStart("guarded"), seen |-> <<>>, ready |-> <<>>,
            first |-> NoMeta]

QueueIdle ==
    /\ variant = "gated"
    /\ queue = <<>>
    /\ now = 0
    /\ nextId = 1
    /\ faults = 0
    /\ passes = 0
    /\ pc = "idle"
    /\ pendingUploads = <<>>
    /\ readyUploads = <<>>
    /\ idx = 1
    /\ completedIds = <<>>
    /\ results = <<>>
    /\ remaining = <<>>
    /\ pushIdx = 1
    /\ response = NoResponse
    /\ hist = [pass |-> NewHist, saves |-> [i \in 1..MaxRecords |-> 0], lost |-> {}]

UpNotCalled == up = UpIdle
IngestIdle == ing = IngestStart("full")

InitForm ==
    /\ FinIdle /\ PollIdle /\ UpNotCalled /\ DatIdle /\ IngestIdle /\ QueueIdle
    /\ FormIdle /\ ChainIdle /\ SecondIdle

NextForm ==
    \/ BuildForm /\ UNCHANGED <<fin, poll, up, dat, ing, chain, second>> /\ UNCHANGED queueVars

\* one pass of the drain, at any time, over a list that is already stored:
\* up to MaxStored records, each old, recent, or without a creation time it
\* can parse
MaxStored == 3
StoredTimes == {0, 1, Undefined}
StoredLists ==
    UNION {{[k \in 1..n |-> Encode([id |-> k, createdAt |-> t[k], totalChunks |-> 1])]
               : t \in [1..n -> StoredTimes]} : n \in 0..MaxStored}

InitStored ==
    /\ FinIdle /\ PollIdle /\ UpNotCalled /\ DatIdle /\ IngestIdle
    /\ FormIdle /\ ChainIdle /\ SecondIdle
    /\ variant = "gated"
    /\ queue \in StoredLists
    /\ now = 0
    /\ nextId = MaxStored + 1
    /\ faults = 0
    /\ passes = MaxPasses - 1
    /\ pc = "idle"
    /\ pendingUploads = <<>>
    /\ readyUploads = <<>>
    /\ idx = 1
    /\ completedIds = <<>>
    /\ results = <<>>
    /\ remaining = <<>>
    /\ pushIdx = 1
    /\ response = NoResponse
    /\ hist = [pass |-> NewHist, saves |-> [i \in 1..MaxStored |-> 0], lost |-> {}]

NextStored ==
    \/ Tick
    \/ DrainRead
    \/ DrainReadFails
    \/ ProcessItem
    \/ RmRead
    \/ RmReadFails
    \/ RmDel
    \/ RmDelThrows
    \/ RmPush
    \/ RmPushThrows

SpecStored == InitStored /\ [][NextStored]_vars

InitChain ==
    /\ FinIdle /\ PollIdle /\ UpNotCalled /\ DatIdle /\ IngestIdle /\ QueueIdle
    /\ FormIdle /\ SecondIdle
    /\ chain \in {ChainStart(v, n) : v \in IngestVariants, n \in AssetNames}

NextChain ==
    \/ Renotify /\ UNCHANGED <<fin, poll, up, dat, ing, form, second>> /\ UNCHANGED queueVars

SpecChain == InitChain /\ [][NextChain]_vars

SpecForm == InitForm /\ [][NextForm]_vars

InitExplicit ==
    FinIdle /\ PollIdle /\ UpNotCalled /\ DatIdle /\ IngestIdle /\ FormIdle /\ ChainIdle /\ SecondIdle /\ ExplicitIdle

NextExplicit ==
    \/ ExplicitReceive
    \/ ExplicitTake
    \/ ExplicitFinalize
    \/ ExplicitItem

SpecExplicit == InitExplicit /\ [][NextExplicit]_vars

Init == FinIdle /\ PollIdle /\ UpNotCalled /\ DatIdle /\ IngestIdle /\ FormIdle /\ ChainIdle /\ SecondIdle /\ QueueInit

Next ==
    \/ Enqueue
    \/ Tick
    \/ DrainRead
    \/ DrainReadFails
    \/ ProcessItem
    \/ RmRead
    \/ RmReadFails
    \/ RmDel
    \/ RmDelThrows
    \/ RmPush
    \/ RmPushThrows

Spec == Init /\ [][Next]_vars

InitOverlap == Init /\ variant = "gated"

NextOverlap ==
    \/ Enqueue
    \/ Tick
    \/ DrainRead
    \/ ProcessItem
    \/ RmRead
    \/ RmDel
    \/ RmPush
    \/ SecondDrain
    \/ SecondRmRead
    \/ SecondRmDel
    \/ SecondRmPush

SpecOverlap == InitOverlap /\ [][NextOverlap]_vars

InitFin ==
    FinInit /\ PollIdle /\ UpNotCalled /\ DatIdle /\ IngestIdle /\ FormIdle /\ ChainIdle /\ SecondIdle /\ QueueIdle

NextFin ==
    \/ FinTurn /\ UNCHANGED <<poll, up, dat, ing>> /\ UNCHANGED <<form, chain, second, queueVars>>
    \/ FinExhausted /\ UNCHANGED <<poll, up, dat, ing>> /\ UNCHANGED <<form, chain, second, queueVars>>

SpecFin == InitFin /\ [][NextFin]_vars

InitPoll ==
    FinIdle /\ PollInit /\ UpNotCalled /\ DatIdle /\ IngestIdle /\ FormIdle /\ ChainIdle /\ SecondIdle /\ QueueIdle

NextPoll ==
    \/ PollTurn /\ UNCHANGED <<fin, up, dat, ing>> /\ UNCHANGED <<form, chain, second, queueVars>>
    \/ PollExhausted /\ UNCHANGED <<fin, up, dat, ing>> /\ UNCHANGED <<form, chain, second, queueVars>>

SpecPoll == InitPoll /\ [][NextPoll]_vars

\* one call of uploadDatImageToBynder, a request a step
InitUpload ==
    /\ FinIdle /\ PollIdle /\ DatIdle /\ IngestIdle /\ FormIdle /\ ChainIdle /\ SecondIdle /\ QueueIdle
    /\ up \in {UpStart(v, b, a, len) :
                  v \in UpVariants, b \in BOOLEAN, a \in BOOLEAN, len \in Lengths}

NextUpload ==
    \/ UpInit /\ UNCHANGED <<fin, poll, dat, ing>> /\ UNCHANGED <<form, chain, second, queueVars>>
    \/ UpChunk /\ UNCHANGED <<fin, poll, dat, ing>> /\ UNCHANGED <<form, chain, second, queueVars>>
    \/ UpRegister /\ UNCHANGED <<fin, poll, dat, ing>> /\ UNCHANGED <<form, chain, second, queueVars>>
    \/ UpWait /\ UNCHANGED <<fin, poll, dat, ing>> /\ UNCHANGED <<form, chain, second, queueVars>>
    \/ UpFinalize /\ UNCHANGED <<fin, poll, dat, ing>> /\ UNCHANGED <<form, chain, second, queueVars>>
    \/ UpSave /\ UNCHANGED <<fin, poll, dat, ing>> /\ UNCHANGED <<form, chain, second, queueVars>>

SpecUpload == InitUpload /\ [][NextUpload]_vars

\* one call of generateDatUrls
InitUrls ==
    /\ FinIdle /\ PollIdle /\ UpNotCalled /\ IngestIdle /\ FormIdle /\ ChainIdle /\ SecondIdle /\ QueueIdle
    /\ dat \in [info : DatInfos, presets : PresetLists, called : {FALSE},
                urls : {[x \in {} |-> <<>>]}]

NextUrls == Resolve /\ UNCHANGED <<fin, poll, up, ing>> /\ UNCHANGED <<form, chain, second, queueVars>>

SpecUrls == InitUrls /\ [][NextUrls]_vars

\* one invocation of the ingestion handler
InitIngest ==
    /\ FinIdle /\ PollIdle /\ UpNotCalled /\ DatIdle /\ FormIdle /\ ChainIdle /\ SecondIdle /\ QueueIdle
    /\ ing \in {IngestStart(v) : v \in IngestVariants}

NextIngest ==
    \/ IngestReceive /\ UNCHANGED fin /\ UNCHANGED <<form, chain, second, queueVars>>
    \/ IngestPoll /\ UNCHANGED fin /\ UNCHANGED <<form, chain, second, queueVars>>
    \/ IngestResolve /\ UNCHANGED fin /\ UNCHANGED <<form, chain, second, queueVars>>
    \/ IngestDownload /\ UNCHANGED fin /\ UNCHANGED <<form, chain, second, queueVars>>
    \/ IngestUpload /\ UNCHANGED fin /\ UNCHANGED <<form, chain, second, queueVars>>
    \/ IngestUploading /\ UNCHANGED fin /\ UNCHANGED <<form, chain, second, queueVars>>
    \/ IngestRespond /\ UNCHANGED fin /\ UNCHANGED <<form, chain, second, queueVars>>

SpecIngest == InitIngest /\ [][NextIngest]_vars

(***************************************************************************)
(* Properties                                                              *)
(***************************************************************************)

PassLog == hist.pass.log
Succeeded(r) ==
    \E k \in 1..Len(PassLog) :
        PassLog[k].raw = r /\ PassLog[k].importId # NoImport /\ PassLog[k].saveOk

\* the subsequence of the records read at the start of the pass that the
\* pass did not finalize and save
Unfinished == SelectSeq(hist.pass.start, LAMBDA r : ~Succeeded(r))

\* C1: when a drain pass returns, every record that the pass found in the
\* queue and that is no longer there is one whose finalize returned an import
\* id and whose save succeeded in this pass.
C1_RemovedOnlyAfterSuccess ==
    (variant = "gated" /\ hist.pass.returned) =>
        \A r \in Range(hist.pass.start) :
            r \notin Range(hist.pass.atReturn) => Succeeded(r)

\* the same with every queue call of the pass answered: the removal itself
\* is sound, the loss comes from the failed calls
RemovedOnlyAfterSuccessNoFault ==
    (variant = "gated" /\ hist.pass.returned /\ ~hist.pass.faulted) =>
        \A r \in Range(hist.pass.start) :
            r \notin Range(hist.pass.atReturn) => Succeeded(r)

\* C2: after a pass over a queue of ready records only, with nothing appended
\* meanwhile, in which some records succeed and the others fail, the queue
\* holds exactly the failed records, unchanged and in their order.
C2_ExactlyFailedRemain ==
    (/\ variant = "gated"
     /\ hist.pass.returned
     /\ hist.pass.enq = {}
     /\ Len(PassLog) = Len(hist.pass.start)
     /\ \E r \in Range(hist.pass.start) : Succeeded(r))
        => hist.pass.atReturn = Unfinished

ExactlyFailedRemainNoFault ==
    (/\ variant = "gated"
     /\ hist.pass.returned
     /\ ~hist.pass.faulted
     /\ hist.pass.enq = {}
     /\ Len(PassLog) = Len(hist.pass.start)
     /\ \E r \in Range(hist.pass.start) : Succeeded(r))
        => hist.pass.atReturn = Unfinished

\* C3: the drain issues finalize and save calls only for records that are at
\* least MinAgeMinutes old when the pass starts.
C3_OnlyAgedRecordsProcessed ==
    \A k \in 1..Len(PassLog) :
        hist.pass.now - PassLog[k].raw.createdAt >= MinAgeMinutes

OnlyAgedRecordsProcessedGated ==
    variant = "gated" => C3_OnlyAgedRecordsProcessed

\* C4: over all passes, the save endpoint answers success at most once for
\* any one queue record.
C4_SavedAtMostOnce ==
    variant = "gated" => \A i \in 1..MaxRecords : hist.saves[i] <= 1

SavedAtMostOnceNoFault ==
    (variant = "gated" /\ faults = 0) => \A i \in 1..MaxRecords : hist.saves[i] <= 1

\* C5: with every queue call answered, a record appended during a pass is
\* missing from the queue when the pass returns exactly if it was appended
\* after removeCompletedUploads read the list and before its DEL; and a record
\* lost this way is never in the queue again.
C5_EnqueueLostInWindow ==
    /\ (variant = "gated" /\ hist.pass.returned /\ ~hist.pass.faulted) =>
          \A e \in hist.pass.enq :
              (e.rec \notin Range(hist.pass.atReturn)) <=> (e.phase = "rmDel")
    /\ \A r \in hist.lost : r \notin Records(queue)

C5_Witness ==
    /\ variant = "gated"
    /\ hist.pass.returned
    /\ ~hist.pass.faulted
    /\ \E e \in hist.pass.enq :
          /\ e.phase = "rmDel"
          /\ e.rec \notin Range(hist.pass.atReturn)
          /\ e.rec \in hist.lost
          /\ e.rec \notin Records(queue)

\* C6: after the responses not-ready, not-ready, success with import id 42
\* the call has returned 42, having sent exactly 3 finalize requests and
\* slept the configured delay after the first and the second, not the third.
C6_FinalizeRetryStream ==
    (fin.seen = <<"notReady", "notReady", "success">> /\ fin.last.importId = 42) =>
        /\ fin.call.status = "returned"
        /\ fin.call.importId = 42
        /\ fin.call.events =
              <<Req, Sleep(FinDelay(fin.call.variant)),
                Req, Sleep(FinDelay(fin.call.variant)), Req>>

C6_Witness ==
    /\ fin.seen = <<"notReady", "notReady", "success">>
    /\ fin.last.importId = 42
    /\ fin.call.importId = 42
    /\ FinRequests(fin.call) = 3

\* C7: a response that is neither a success nor a not-ready signal ends the
\* call at once with failure: it is the last response the call ever sees,
\* and no request follows it.
C7_OtherResponseIsTerminal ==
    \A k \in 1..Len(fin.seen) :
        fin.seen[k] = "other" =>
            /\ k = Len(fin.seen)
            /\ fin.call.status = "returned"
            /\ fin.call.importId = NoImport
            /\ FinRequests(fin.call) = k

C7_Witness ==
    /\ Len(fin.seen) = 2
    /\ fin.seen[1] = "notReady"
    /\ fin.seen[2] = "other"
    /\ fin.call.status = "returned"
    /\ fin.call.importId = NoImport

\* C8: one call never sends more finalize requests than its retry count, and
\* a call that saw only not-ready responses and is over has failed after
\* exactly that many requests.
C8_RetryBudget ==
    /\ FinRequests(fin.call) <= FinRetries(fin.call.variant)
    /\ (/\ fin.call.status # "running"
        /\ \A k \in 1..Len(fin.seen) : fin.seen[k] = "notReady")
          => /\ fin.call.status = "returned"
             /\ fin.call.importId = NoImport
             /\ FinRequests(fin.call) = FinRetries(fin.call.variant)

C8_Witness ==
    /\ fin.call.status = "returned"
    /\ Len(fin.seen) = FinRetries(fin.call.variant)
    /\ \A k \in 1..Len(fin.seen) : fin.seen[k] = "notReady"
    /\ fin.call.variant = "explicit"

\* C9: in a pass, save is called only with the import id that the finalize
\* of the same item returned; a save that does not succeed fails that item
\* without a second save; a save that succeeds completes the item.
C9_SaveFollowsFinalize ==
    /\ Len(results) = Len(PassLog)
    /\ \A k \in 1..Len(PassLog) :
          LET e == PassLog[k] IN
          /\ e.saveCalled => (e.importId # NoImport /\ e.saveArg = e.importId)
          /\ (e.saveCalled /\ ~e.saveOk) => (~e.completed /\ ~results[k].success)
          /\ e.saveOk => (e.saveCalled /\ e.completed /\ results[k].success
                          /\ results[k].importId = e.importId)
          /\ e.completed => InSeq(readyUploads[k].u.id, completedIds)
          /\ \A j \in 1..Len(PassLog) : j # k => PassLog[j].raw # e.raw

C9_Witness ==
    /\ Len(PassLog) = 2
    /\ PassLog[1].saveCalled /\ ~PassLog[1].saveOk
    /\ PassLog[2].saveOk /\ PassLog[2].saveArg = 42
    /\ ~results[1].success /\ results[2].success

\* C10 as stated: a first metadata response whose transformBaseUrl is not
\* the empty string makes the poller return it after one fetch and no sleep.
C10_NonEmptyReturnsAtOnce ==
    (Len(poll.seen) >= 1 /\ poll.seen[1] = "nonEmpty") =>
        /\ poll.call.status = "returned"
        /\ poll.call.assetInfo = poll.first
        /\ poll.call.events = <<PollFetch>>

\* C10 amended: a first metadata response whose transformBaseUrl holds a
\* character that is not white space makes the poller return it after one
\* fetch and no sleep.
C10_NonBlankReturnsAtOnce ==
    (/\ Len(poll.seen) >= 1
     /\ poll.seen[1] = "nonEmpty"
     /\ Trim(poll.first.transformBaseUrl) # <<>>) =>
        /\ poll.call.status = "returned"
        /\ poll.call.assetInfo = poll.first
        /\ PollFetches(poll.call) = 1
        /\ PollSleeps(poll.call) = 0

C10_Witness ==
    /\ poll.seen = <<"nonEmpty">>
    /\ poll.call.variant = "guarded"
    /\ poll.first.transformBaseUrl = <<"u", " ">>
    /\ poll.call.status = "returned"
    /\ poll.call.assetInfo = poll.first

\* C11: when every metadata fetch of a call answered a parsed metadata object
\* that was not ready, the call has made at most retries fetches, and once it
\* has returned it has made exactly retries fetches, slept after each, and
\* returned null.
PollAllNotReady ==
    /\ Len(poll.seen) >= 1
    /\ \A k \in 1..Len(poll.seen) :
          poll.seen[k] \in {"empty", "nonEmpty"} /\ ~poll.ready[k]

C11_PollExhaustion ==
    PollAllNotReady =>
        /\ poll.call.status \in {"running", "returned"}
        /\ PollFetches(poll.call) <= PollMax(poll.call.variant)
        /\ PollFetches(poll.call) = Len(poll.seen)
        /\ poll.call.status = "returned" =>
              /\ PollFetches(poll.call) = PollMax(poll.call.variant)
              /\ PollSleeps(poll.call) = PollMax(poll.call.variant)
              /\ poll.call.assetInfo = NoMeta

C11_Witness ==
    /\ PollAllNotReady
    /\ poll.call.variant = "guarded"
    /\ poll.call.status = "returned"
    /\ PollFetches(poll.call) = PollRetries
    /\ \E k \in 1..Len(poll.seen) : poll.seen[k] = "nonEmpty"

\* C12 as stated: in every copy of the poller, a metadata body that does not
\* parse ends the call at once with null: no sleep after it, no further fetch.
PollLastUnparseable == Len(poll.seen) >= 1 /\ Last(poll.seen) = "unparseable"

C12_UnparseableReturnsNull ==
    PollLastUnparseable =>
        /\ poll.call.status = "returned"
        /\ poll.call.assetInfo = NoMeta
        /\ Last(poll.call.events) = PollFetch
        /\ PollFetches(poll.call) = Len(poll.seen)

\* The copies with the try/catch around response.json() do so.
UnparseableReturnsNullGuarded ==
    (PollLastUnparseable /\ poll.call.variant = "guarded") =>
        /\ poll.call.status = "returned"
        /\ poll.call.assetInfo = NoMeta
        /\ Last(poll.call.events) = PollFetch
        /\ PollFetches(poll.call) = Len(poll.seen)

(***************************************************************************)
(* Properties of the upload flow                                           *)
(***************************************************************************)

UpOps(st, op) == SelectSeq(st.events, LAMBDA e : e.op = op)
UpChunks(st) == UpOps(st, "chunk")
\* every chunk of the buffer was accepted
UpChunksDone(st) == st.status # "idle" /\ st.pc \notin {"init", "chunk"}

RECURSIVE SumSizes(_)
SumSizes(cs) == IF cs = <<>> THEN 0 ELSE (Head(cs).end - Head(cs).start) + SumSizes(Tail(cs))

\* the number of 5 MiB chunks a payload of len bytes needs, by its definition
IsChunkCount(n, len) ==
    IF len = 0 THEN n = 0 ELSE (n - 1) * 5 * MiB < len /\ len <= n * 5 * MiB

\* Chunk k (1-based) is numbered k and covers [(k-1)*5MiB, min(k*5MiB, L));
\* once all are sent there are ceil(L / 5MiB) of them, contiguous from 0 to L,
\* and their sizes sum to L.
ChunkingArithmetic ==
    LET cs == UpChunks(up) IN
    /\ \A k \in 1..Len(cs) :
          /\ cs[k].n = k
          /\ cs[k].start = (k - 1) * 5 * MiB
          /\ cs[k].end = Min(k * 5 * MiB, up.len)
          /\ cs[k].start < cs[k].end
          /\ k > 1 => cs[k].start = cs[k - 1].end
    /\ UpChunksDone(up) =>
          /\ IsChunkCount(Len(cs), up.len)
          /\ SumSizes(cs) = up.len
          /\ Len(cs) > 0 => cs[1].start = 0 /\ Last(cs).end = up.len
    /\ (UpChunksDone(up) /\ up.len = 12 * MiB) =>
          /\ Len(cs) = 3
          /\ cs[1].end - cs[1].start = 5 * MiB
          /\ cs[2].end - cs[2].start = 5 * MiB
          /\ cs[3].end - cs[3].start = 2 * MiB
    /\ (UpChunksDone(up) /\ up.len = 4 * MiB) => Len(cs) = 1

\* C15 as stated: the chunking arithmetic, and a 4 MiB payload is one chunk
\* whose registration is skipped.
C15_Chunking ==
    /\ ChunkingArithmetic
    /\ (up.len = 4 * MiB /\ up.status = "returned") => UpOps(up, "register") = <<>>

\* C16: a chunk POST that is not answered with success is the last request of
\* the upload: it is not sent again, no later chunk follows, and no register,
\* finalize or save request is issued.
C16_ChunkFailureAborts ==
    \A k \in 1..Len(up.log) :
        (up.log[k].op = "chunk" /\ ~up.log[k].ok) =>
            /\ k = Len(up.log)
            /\ up.status = "returned"
            /\ Last(up.events).op = "chunk" /\ Last(up.events).n = up.log[k].n
            /\ Len(UpChunks(up)) = up.log[k].n
            /\ \A e \in Range(up.events) : e.op \in {"init", "chunk"}

C16_Witness ==
    /\ Len(up.log) = 3
    /\ up.log[3].op = "chunk" /\ ~up.log[3].ok
    /\ up.totalChunks = 3
    /\ up.status = "returned"

\* C17 as stated: a register request is sent exactly when the chunk count is
\* greater than 1 and every chunk was accepted, in both copies of the uploader.
C17_RegisterIffMultiChunk ==
    /\ UpOps(up, "register") # <<>> => (up.totalChunks > 1 /\ UpChunksDone(up))
    /\ (UpChunksDone(up) /\ up.totalChunks > 1 /\ up.pc # "register")
          => Len(UpOps(up, "register")) = 1

\* The copy with the `totalChunks > 1` test does so.
RegisterIffMultiChunkFull ==
    up.variant = "full" => C17_RegisterIffMultiChunk

\* the chunk count a payload of len bytes needs
Needed(len) == CHOOSE n \in 0..(MaxFullChunks + 1) : IsChunkCount(n, len)

\* may request next directly follow request prev in an upload of total chunks
Follows(prev, next, total) ==
    IF prev.op = "init"
    THEN prev.ok /\ IF total > 0 THEN next.op = "chunk" /\ next.n = 1
                    ELSE next.op = "finalize"
    ELSE IF prev.op = "chunk"
    THEN prev.ok /\ IF prev.n < total THEN next.op = "chunk" /\ next.n = prev.n + 1
                    ELSE IF total > 1 THEN next.op = "register"
                    ELSE next.op = "finalize"
    ELSE IF prev.op = "register" THEN prev.ok /\ next.op = "finalize"
    ELSE IF prev.op = "finalize"
    THEN IF prev.ok THEN next.op = "save" ELSE next.op = "finalize"
    ELSE FALSE

\* C18: in the uploader that finalizes and saves, the requests of one upload
\* are initialize, chunk 1 .. chunk n, register (when n > 1), finalize
\* (repeated while it is not ready), save, in that order; a request follows
\* another step's request only when that one succeeded, and the wait and the
\* retry delays are the only other events.
C18_UploadOrder ==
    up.variant = "full" =>
        /\ Len(up.log) >= 1 => up.log[1].op = "init"
        /\ \A k \in 1..(Len(up.log) - 1) :
              Follows(up.log[k], up.log[k + 1], Needed(up.len))
        /\ Len(UpOps(up, "save")) <= 1
        /\ (up.status = "returned" /\ up.failedAt \notin {"none", "guard"}) =>
              (up.log # <<>> /\ ~Last(up.log).ok /\ Last(up.log).op = up.failedAt)
        /\ (up.status = "returned" /\ up.failedAt = "none") =>
              (Last(up.log).op = "save" /\ Last(up.log).ok)
        /\ Len(SelectSeq(up.events, LAMBDA e : e.op # "sleep")) = Len(up.log)
        /\ \A k \in 1..Len(up.log) :
              SelectSeq(up.events, LAMBDA e : e.op # "sleep")[k].op = up.log[k].op

C18_Witness ==
    /\ up.variant = "full"
    /\ up.len = 12 * MiB
    /\ up.status = "returned"
    /\ up.failedAt = "none"
    /\ [k \in 1..Len(up.log) |-> up.log[k].op]
          = <<"init", "chunk", "chunk", "chunk", "register", "finalize", "finalize", "save">>

(***************************************************************************)
(* Properties of generateDatUrls                                           *)
(***************************************************************************)

Base == dat.info.transformBaseUrl
Slashes(str) == {k \in 1..Len(str) : str[k] = "/"}
Max(S) == CHOOSE x \in S : \A y \in S : y <= x
\* positions of the last, the second to last and the third to last "/"
Slash1(str) == Max(Slashes(str))
Slash2(str) == Max(Slashes(str) \ {Slash1(str)})
Slash3(str) == Max(Slashes(str) \ {Slash1(str), Slash2(str)})
SlugOf(str) == SubSeq(str, Slash1(str) + 1, Len(str))
RenditionOf(str) == SubSeq(str, Slash2(str) + 1, Slash1(str) - 1)

\* str ends in /transform/<renditionId>/<slug>, both segments non-empty
IsTransformBase(str) ==
    /\ Cardinality(Slashes(str)) >= 3
    /\ SubSeq(str, Slash3(str) + 1, Slash2(str) - 1) = <<"transform">>
    /\ RenditionOf(str) # <<>>
    /\ SlugOf(str) # <<>>

\* C19: for a base address ending in /transform/<renditionId>/<slug>, every
\* configured preset P gets exactly one address, and it is
\* https://jakob-spott.bynder.com/transform/P/<renditionId>/<slug>, the last
\* two segments of the base unchanged.
C19_TemplateResolution ==
    (dat.called /\ ~dat.info.null /\ dat.info.has /\ IsTransformBase(Base)) =>
        /\ DOMAIN dat.urls = Range(dat.presets)
        /\ \A P \in Range(dat.presets) :
              dat.urls[P] = <<"https://jakob-spott.bynder.com", "/", "transform", "/",
                              P, "/">> \o RenditionOf(Base) \o <<"/">> \o SlugOf(Base)

C19_Witness ==
    /\ dat.called
    /\ Base = <<"/", "transform", "/", "R", "/", "s">>
    /\ dat.presets = <<"TestPreset", "crop300">>
    /\ dat.urls["crop300"] = <<"https://jakob-spott.bynder.com", "/", "transform", "/",
                               "crop300", "/", "R", "/", "s">>

\* C20 as stated: a base address with fewer than two segments between its
\* "/" separators yields an empty mapping.
C20_FewSegmentsYieldNothing ==
    (dat.called /\ ~dat.info.null /\ dat.info.has /\ Cardinality(Slashes(Base)) < 1) =>
        DOMAIN dat.urls = {}

\* An absent assetInfo and an absent or empty base address do yield an empty
\* mapping.
NoBaseYieldsNothing ==
    (dat.called /\ (dat.info.null \/ ~dat.info.has \/ Base = <<>>)) =>
        DOMAIN dat.urls = {}

(***************************************************************************)
(* Properties of the ingestion handler                                     *)
(***************************************************************************)

IngestOps(op) == SelectSeq(ing.log, LAMBDA e : e.op = op)

\* fetchAssetInfoWithRetry has returned null to the handler
PolledUnavailable ==
    /\ ing.pc \notin {"start", "poll", "threw"}
    /\ poll.call.status = "returned"
    /\ poll.call.assetInfo = NoMeta

\* C13: once the poller has returned null the handler resolves no address,
\* downloads nothing, starts no upload, and its answer has status 200.
C13_UnavailableSkipsDownstream ==
    PolledUnavailable =>
        /\ ing.log = <<>>
        /\ ing.datUrls = <<>>
        /\ ~dat.called
        /\ up = UpIdle
        /\ ing.pc \in {"resolve", "respond", "done"}
        /\ ing.pc = "done" => ing.statusCode = 200

C13_Witness ==
    /\ PolledUnavailable
    /\ PollFetches(poll.call) = PollRetries
    /\ ing.pc = "done"
    /\ ing.statusCode = 200

\* the name holds two underscores in a row
Derivative(name) == \E k \in 1..(Len(name) - 1) : name[k] = "_" /\ name[k + 1] = "_"

\* the notification carries a media id and a named asset
NamedAsset ==
    /\ ing.pc # "start"
    /\ ing.input.body = "notification" /\ ing.input.message = "ok"
    /\ ing.input.mediaId
    /\ ing.input.hasMedia /\ ing.input.name # <<>>

\* C14: in the handler with the loop guard, a notification for an asset
\* whose name contains "__" is answered before any metadata fetch, download
\* or upload request; an asset whose name does not contain "__" goes on to
\* metadata polling.
C14_LoopGuard ==
    (ing.variant = "full" /\ NamedAsset) =>
        IF Derivative(ing.input.name)
        THEN /\ ing.pc = "done"
             /\ ing.statusCode = 200
             /\ poll.call.events = <<>>
             /\ ing.log = <<>>
             /\ up = UpIdle
        ELSE ing.pc = "poll" \/ PollFetches(poll.call) >= 1

C14_Witness ==
    /\ ing.variant = "full"
    /\ NamedAsset
    /\ ing.input.name = <<"_", "_">>
    /\ ing.pc = "done"
    /\ poll.call.events = <<>>

\* an asset without the separator reaches the poller
LoopGuardPasses ==
    /\ ing.variant = "full"
    /\ NamedAsset
    /\ ing.input.name = <<"a", "_">>
    /\ PollFetches(poll.call) >= 1

\* the invocation has issued no remote request
NoRemoteRequest ==
    /\ poll.call.events = <<>>
    /\ ing.log = <<>>
    /\ up = UpIdle
    /\ ~dat.called

\* C24: an inbound body that is not JSON is answered with status 400 and the
\* plain text "Invalid JSON", and no remote request is issued.
C24_MalformedBodyIs400 ==
    (ing.pc # "start" /\ ing.input.body = "invalid") =>
        /\ ing.pc = "done"
        /\ ing.statusCode = 400
        /\ ing.message = "Invalid JSON"
        /\ NoRemoteRequest

C24_Witness ==
    /\ ing.input.body = "invalid"
    /\ ing.pc = "done"
    /\ ing.statusCode = 400

\* the envelope parsed and is a Notification, its Message is not JSON
UnparseableMessage ==
    /\ ing.pc # "start"
    /\ ing.input.body = "notification"
    /\ ing.input.message = "invalid"

\* C25 as stated: an embedded message that does not parse is answered with a
\* client-error status, and nothing is processed.
C25_MalformedMessageIsClientError ==
    UnparseableMessage =>
        /\ ing.pc = "done"
        /\ ing.statusCode >= 400 /\ ing.statusCode <= 499
        /\ NoRemoteRequest

\* What the handler does with such a message: nothing is processed, and the
\* answer is 200.
MalformedMessageIsAcknowledged ==
    UnparseableMessage =>
        /\ ing.pc = "done"
        /\ ing.statusCode = 200
        /\ NoRemoteRequest

\* C26 as stated, for the ingestion handler: the invocation never ends by
\* throwing.
C26_IngestNeverThrows == ing.pc # "threw"

\* The scheduled drain does answer every pass.
DrainAlwaysAnswers ==
    (pc = "idle" /\ passes > 0) => response.statusCode = 200

\* the handler has metadata and is past the collection of datUrls
Resolved ==
    /\ ing.pc \in {"download", "upload", "respond", "done"}
    /\ ing.hasInfo

\* C21: in the handler that takes the addresses from the metadata, datUrls
\* holds exactly the configured presets that have a non-empty address in
\* assetInfo.thumbnails, each with that address; the others are skipped
\* without error; when none is left nothing is downloaded or uploaded and
\* the answer is 200.
C21_DirectMapping ==
    (ing.variant = "full" /\ Resolved) =>
        /\ {ing.datUrls[k].preset : k \in 1..Len(ing.datUrls)}
              = {x \in {"TestPreset", "crop300"} : ing.thumbs[x] # <<>>}
        /\ \A k \in 1..Len(ing.datUrls) :
              /\ ing.datUrls[k].url = ing.thumbs[ing.datUrls[k].preset]
              /\ \A h \in 1..Len(ing.datUrls) :
                    ing.datUrls[h].preset = ing.datUrls[k].preset => h = k
        /\ ing.datUrls = <<>> =>
              /\ IngestOps("download") = <<>>
              /\ IngestOps("upload") = <<>>
              /\ up = UpIdle
              /\ ing.pc \in {"respond", "done"}
              /\ ing.pc = "done" => ing.statusCode = 200

C21_Witness ==
    /\ ing.variant = "full"
    /\ ing.pc = "done"
    /\ ing.hasInfo
    /\ ing.thumbs["TestPreset"] = <<>>
    /\ ing.thumbs["crop300"] = <<"y">>
    /\ ing.thumbs["webimage"] = <<"x">>
    /\ ing.datUrls = <<[preset |-> "crop300", url |-> <<"y">>]>>
    /\ ing.statusCode = 200

\* no configured preset has an address: the pipeline stops, the answer is 200
EmptyMappingAcknowledged ==
    /\ ing.variant = "full"
    /\ ing.hasInfo
    /\ ing.thumbs["webimage"] = <<"x">>
    /\ ing.datUrls = <<>>
    /\ ing.pc = "done"
    /\ ing.statusCode = 200

PresetsOf(seq) == [k \in 1..Len(seq) |-> seq[k].preset]
IsPrefix(a, b) == Len(a) <= Len(b) /\ a = SubSeq(b, 1, Len(a))

\* C22: whatever downloads fail, every entry of datUrls has its download
\* attempted, once and in order, and every rendition that was downloaded has
\* its upload attempted, once and in order.
C22_FailedDownloadSparesSiblings ==
    /\ IsPrefix(PresetsOf(IngestOps("download")), PresetsOf(ing.datUrls))
    /\ IsPrefix(PresetsOf(IngestOps("upload")), PresetsOf(ing.downloaded))
    /\ (ing.pc \in {"upload", "respond", "done"} /\ ing.hasInfo) =>
          PresetsOf(IngestOps("download")) = PresetsOf(ing.datUrls)
    /\ (ing.pc = "done" /\ ing.hasInfo) =>
          PresetsOf(IngestOps("upload")) = PresetsOf(ing.downloaded)

C22_Witness ==
    /\ ing.variant = "full"
    /\ ing.pc = "done"
    /\ PresetsOf(ing.datUrls) = <<"TestPreset", "crop300">>
    /\ PresetsOf(IngestOps("download")) = <<"TestPreset", "crop300">>
    /\ PresetsOf(ing.downloaded) = <<"crop300">>
    /\ PresetsOf(IngestOps("upload")) = <<"crop300">>

PresetIndex(p) == CHOOSE k \in 1..Len(Presets) : Presets[k] = p
InConfiguredOrder(seq) ==
    \A a, b \in 1..Len(seq) : a < b => PresetIndex(seq[a]) < PresetIndex(seq[b])

HandledInOrder ==
    /\ InConfiguredOrder(PresetsOf(IngestOps("download")))
    /\ InConfiguredOrder(PresetsOf(IngestOps("upload")))

\* while an uploader call is running the handler issues nothing of its own:
\* no download, no further uploader call, no response
UploaderAwaited == [][up.status = "running" => ing' = ing]_vars

\* C29: the requests of one invocation are issued one after another (the
\* handler stands still while an uploader call is issuing its requests, and
\* every uploader request is followed by exactly one answer before the next),
\* and downloads and uploads each go through the presets in configured order.
C29_SequentialPresets ==
    /\ []HandledInOrder
    /\ [](Len(SelectSeq(up.events, LAMBDA e : e.op # "sleep")) = Len(up.log))
    /\ UploaderAwaited

C29_Witness ==
    /\ PresetsOf(IngestOps("download")) = <<"TestPreset", "crop300">>
    /\ PresetsOf(IngestOps("upload")) = <<"TestPreset", "crop300">>
    /\ up.status = "running"
    /\ up.events # <<>>

\* C30 (refuted): at most one downloaded rendition is waiting for its upload,
\* so a preset's upload begins before the next preset's download.
C30_ConsumedPerPreset ==
    Len(ing.downloaded) <= Len(IngestOps("upload")) + 1

\* what the handlers do: every download precedes every upload
DownloadsPrecedeUploads ==
    \A a, b \in 1..Len(ing.log) :
        (ing.log[a].op = "upload" /\ ing.log[b].op = "download") => b < a

TwoRenditionsHeld ==
    /\ Len(ing.downloaded) = 2
    /\ IngestOps("upload") = <<>>

DrainComplete ==
    pc = "idle" /\ response.message = "Scheduled finalization complete"

\* C23: in a drain pass every ready item is processed, in order, whatever
\* happened to the items before it, and the response carries exactly one
\* result per ready item.
C23_PartialBatchFailure ==
    /\ pc = "loop" => (idx <= Len(readyUploads) /\ Len(results) = idx - 1)
    /\ pc \in {"rmRead", "rmDel", "rmPush"} => Len(results) = Len(readyUploads)
    /\ DrainComplete =>
          /\ Len(response.results) = Len(readyUploads)
          /\ Len(hist.pass.log) = Len(readyUploads)
          /\ \A k \in 1..Len(readyUploads) :
                /\ hist.pass.log[k].raw = readyUploads[k].raw
                /\ response.results[k].success = hist.pass.log[k].completed

C23_Witness ==
    /\ DrainComplete
    /\ Len(readyUploads) = 2
    /\ ~response.results[1].success
    /\ response.results[2].success

\* the same for the explicit handler's loop over well-formed uploads: one
\* result per upload, whatever failed
ExplicitOneResultPerUpload ==
    /\ pc \in {"exLoop", "exFinalize"} =>
          (idx <= Len(readyUploads) /\ Len(results) = idx - 1)
    /\ (pc = "exDone" /\ response.statusCode = 200) =>
          Len(response.results) = Len(readyUploads)

ExplicitSiblingSurvives ==
    /\ pc = "exDone"
    /\ response.statusCode = 200
    /\ Len(readyUploads) = 2
    /\ ~response.results[1].success
    /\ response.results[2].success

\* an `uploads` array with a null element: the handler throws
ExplicitThrows == pc = "exThrew"

\* every stored entry is the encoding of the record listAll decodes it to
StoredEntriesDecode ==
    variant = "gated" =>
        \A k \in 1..Len(queue) :
            /\ Encode(Decode(variant, queue[k])) = queue[k]
            /\ GetPendingUploads(variant, queue, TRUE)[k].u = queue[k].list[1].text

\* a re-push step of removeCompletedUploads appends one entry, and listAll
\* decodes that entry to the record that was pushed
RePushReadsBack ==
    (variant = "gated" /\ pushIdx' = pushIdx + 1) =>
        /\ Len(queue') = Len(queue) + 1
        /\ Last(queue') = Encode(remaining[pushIdx].u)
        /\ Last(GetPendingUploads(variant, queue', TRUE)).u = remaining[pushIdx].u

LegacyDecodeLosesRecord ==
    variant = "legacy" =>
        \A k \in 1..Len(queue) : Encode(Decode(variant, queue[k])) # queue[k]

FieldsNamed(k) == SelectSeq(form.fields, LAMBDA f : f.k = k)
Carries(k, v) == \E n \in 1..Len(form.fields) : form.fields[n] = Field(k, v)

\* the form carries key exactly once, with the value <base key>/p<i>
KeyIsChunkKey ==
    FieldsNamed("key") = <<Field("key", ChunkKey(form.mp, form.chunkNumber))>>

\* C28 (refuted): every initialize parameter other than key is carried
\* unchanged, key is carried exactly once as <base key>/p<i>, and Filename,
\* name (the final file name), chunk = i and chunks = the total are present.
C28_ChunkFormFields ==
    form.built =>
        /\ \A n \in 1..Len(form.mp) :
              form.mp[n].k # "key" => Carries(form.mp[n].k, form.mp[n].v)
        /\ KeyIsChunkKey
        /\ FieldsNamed("Filename") # <<>>
        /\ Carries("name", FileName)
        /\ Carries("chunk", Val("", form.chunkNumber))
        /\ Carries("chunks", Val("", form.totalChunks))

\* what each copy does with key
KeyOverriddenEarly == (form.built /\ form.variant = "early") => KeyIsChunkKey
KeyUnchangedFull ==
    (form.built /\ form.variant = "full") =>
        FieldsNamed("key") = <<Field("key", Val(form.mp[MpKey(form.mp)].v.text, 0))>>

\* chunk-specific fields both copies append
ChunkCountersCarried ==
    form.built =>
        /\ Carries("name", FileName)
        /\ FieldsNamed("chunk") = <<Field("chunk", Val("", form.chunkNumber))>>
        /\ FieldsNamed("chunks") = <<Field("chunks", Val("", form.totalChunks))>>

\* what the explicit handler returns when it returns
ExplicitAnswer ==
    /\ (pc = "exDone" /\ response.statusCode = 400) =>
          /\ readyUploads = <<>>
          /\ response.results = <<>>
          /\ FinIdle
    /\ (pc = "exDone" /\ response.statusCode # 400) =>
          /\ response.statusCode = 200
          /\ readyUploads # <<>>
          /\ Len(response.results) = Len(readyUploads)
          /\ response.successCount + response.failureCount = Len(readyUploads)

\* C33 (refuted): the explicit handler answers every request, 400 for a body
\* that is not JSON or has no non-empty uploads array (no finalize or save
\* request made), 200 otherwise, with one result per upload and
\* successCount + failureCount = the number of uploads.
C33_ExplicitHandlerAnswers ==
    /\ pc # "exThrew"
    /\ pc \in {"exStart", "exLoop", "exFinalize", "exDone", "exThrew"}
    /\ ExplicitAnswer

\* an uploads array whose second element is null: the first upload has been
\* finalized and saved, then the handler throws
ExplicitThrowsAfterSave ==
    /\ pc = "exThrew"
    /\ Len(results) = 1
    /\ results[1].success

FinalizeOrSave(op) == op \in {"finalize", "save"}

ChunkSucceededBefore(k) ==
    \E h \in 1..(k - 1) : up.log[h].op = "chunk" /\ up.log[h].ok

\* C39 (refuted): a finalize or save request is made only for an upload of at
\* least one chunk, after a chunk POST that succeeded.
C39_FinalizeNeedsChunk ==
    \A k \in 1..Len(up.log) :
        FinalizeOrSave(up.log[k].op) =>
            (up.totalChunks >= 1 /\ ChunkSucceededBefore(k))

\* for a payload of at least one byte it is so
FinalizeNeedsChunkNonEmpty ==
    up.len > 0 =>
        \A k \in 1..Len(up.log) :
            FinalizeOrSave(up.log[k].op) =>
                (up.totalChunks >= 1 /\ ChunkSucceededBefore(k))

\* a buffer of length 0 passes the `!buffer` test: no chunk, then finalize
EmptyPayloadFinalized ==
    /\ up.variant = "full"
    /\ up.hasBuffer /\ up.len = 0
    /\ up.totalChunks = 0
    /\ \E k \in 1..Len(up.log) : up.log[k].op = "finalize"
    /\ \A k \in 1..Len(up.log) : up.log[k].op # "chunk"

Separator == <<"_", "_">>

\* every name the uploader generated contains the separator
GeneratedNamesHaveSeparator ==
    chain.depth >= 1 => Includes(chain.name, Separator)

\* a notification that carries the name of a rendition is stopped by the guard
NamedRenditionStopped ==
    (chain.variant = "full" /\ chain.summary = "named" /\ chain.outcome = "saved")
        => chain.depth = 1

\* C38 (refuted): generated names contain "__", a notification carrying such
\* a name is stopped by the loop guard, and no chain of notifications makes a
\* rendition of a rendition.
C38_NoRenditionOfRendition ==
    chain.variant = "full" =>
        /\ GeneratedNamesHaveSeparator
        /\ NamedRenditionStopped
        /\ chain.depth <= 1

C38_SeparatorAndGuard ==
    chain.variant = "full" => (GeneratedNamesHaveSeparator /\ NamedRenditionStopped)

\* a notification without the media object about a rendition: the guard does
\* not apply and a rendition of the rendition is saved
RenditionOfRendition ==
    /\ chain.variant = "full"
    /\ chain.depth = 2
    /\ chain.summary # "named"
    /\ chain.outcome = "saved"

NamedRenditionSkipped ==
    /\ chain.variant = "full"
    /\ chain.depth = 1
    /\ chain.summary = "named"
    /\ chain.outcome = "skipped"

NotCompleted(r) == ~InSeq(r.id, completedIds)

\* C34 (refuted): when the pass returns, every record that was in the list
\* and whose id is not among the completed ids is still in the list, whatever
\* queue call failed.
C34_RemovalKeepsOthers ==
    (variant = "gated" /\ hist.pass.returned) =>
        \A r \in Range(hist.pass.start) :
            NotCompleted(r) => r \in Range(hist.pass.atReturn)

RemovalKeepsOthersNoFault ==
    (variant = "gated" /\ hist.pass.returned /\ ~hist.pass.faulted) =>
        \A r \in Range(hist.pass.start) :
            NotCompleted(r) => r \in Range(hist.pass.atReturn)

\* the list was read as empty inside removeCompletedUploads and then deleted
RemovalLosesOthers ==
    /\ variant = "gated"
    /\ hist.pass.returned
    /\ hist.pass.faulted
    /\ \E r \in Range(hist.pass.start) :
          NotCompleted(r) /\ r \notin Range(hist.pass.atReturn)

EarlyPhases == {"loop", "rmRead"}

\* C35 (refuted): a record appended after the handler read the list and
\* before removeCompletedUploads read it is in the list when the pass
\* returns, and the pass did not process it.
C35_EarlyEnqueuePreserved ==
    (variant = "gated" /\ hist.pass.returned) =>
        \A e \in hist.pass.enq :
            e.phase \in EarlyPhases =>
                /\ e.rec \in Range(hist.pass.atReturn)
                /\ \A k \in 1..Len(PassLog) : PassLog[k].raw # e.rec

EarlyEnqueuePreservedNoFault ==
    (variant = "gated" /\ hist.pass.returned /\ ~hist.pass.faulted) =>
        \A e \in hist.pass.enq :
            e.phase \in EarlyPhases =>
                /\ e.rec \in Range(hist.pass.atReturn)
                /\ \A k \in 1..Len(PassLog) : PassLog[k].raw # e.rec

EarlyEnqueueLost ==
    /\ variant = "gated"
    /\ hist.pass.returned
    /\ \E e \in hist.pass.enq :
          e.phase \in EarlyPhases /\ e.rec \notin Range(hist.pass.atReturn)

NothingCompleted == \A k \in 1..Len(PassLog) : ~PassLog[k].completed

\* C36: a pass in which no record completes leaves the stored list as it was:
\* when it returns the list is the list it read, followed by whatever was
\* appended meanwhile.
C36_IdlePassLeavesList ==
    (hist.pass.returned /\ NothingCompleted) =>
        /\ IsPrefix(hist.pass.start, hist.pass.atReturn)
        /\ Len(hist.pass.atReturn) = Len(hist.pass.start) + Cardinality(hist.pass.enq)
        /\ \A e \in hist.pass.enq : e.rec \in Range(hist.pass.atReturn)
        /\ completedIds = <<>>
        /\ remaining = <<>> /\ pushIdx = 1

\* a pass over one ready record that fails, while a record is appended
C36_Witness ==
    /\ variant = "gated"
    /\ hist.pass.returned
    /\ Len(PassLog) = 1
    /\ NothingCompleted
    /\ Len(hist.pass.start) = 1
    /\ Cardinality(hist.pass.enq) = 1
    /\ Len(hist.pass.atReturn) = 2

IndexIn(seq, x) == CHOOSE k \in 1..Len(seq) : seq[k] = x

\* C37: after a pass that removed completed records, the records of the list
\* read at the start that are still there are in the order they had.
C37_SurvivorsKeepOrder ==
    (variant = "gated" /\ hist.pass.returned /\ ~NothingCompleted) =>
        \A a, b \in 1..Len(hist.pass.atReturn) :
            (/\ a < b
             /\ hist.pass.atReturn[a] \in Range(hist.pass.start)
             /\ hist.pass.atReturn[b] \in Range(hist.pass.start)) =>
                IndexIn(hist.pass.start, hist.pass.atReturn[a])
                    < IndexIn(hist.pass.start, hist.pass.atReturn[b])

\* two records of the list read at the start survive a pass that removed one
C37_Witness ==
    /\ variant = "gated"
    /\ hist.pass.returned
    /\ ~NothingCompleted
    /\ Len(hist.pass.start) = 3
    /\ hist.pass.atReturn = <<hist.pass.start[1], hist.pass.start[3]>>

\* the times a pass can start at, and beyond: far enough for any creation
\* time the clock has given out
Horizon == MaxNow + MinAgeMinutes

BecomesEligible(u) == \E t \in 0..Horizon : IsReady(t, u)

\* C40 (refuted): for every record in the list there is a time from which the
\* age filter of a pass lets it through.
C40_EveryRecordBecomesEligible ==
    \A k \in 1..Len(queue) : BecomesEligible(Decode(variant, queue[k]))

\* it is so for the records that carry a creation time
DatedRecordsBecomeEligible ==
    \A k \in 1..Len(queue) :
        Decode(variant, queue[k]).createdAt # Undefined =>
            BecomesEligible(Decode(variant, queue[k]))

\* a record without a creation time is in no pass's readyUploads
UndatedNeverProcessed ==
    /\ \A k \in 1..Len(readyUploads) : readyUploads[k].u.createdAt # Undefined
    /\ \A k \in 1..Len(PassLog) : PassLog[k].raw.createdAt # Undefined

\* the last pass, at the latest time, has returned and the record is still
\* in the list, never processed
UndatedStillQueued ==
    /\ passes = MaxPasses
    /\ hist.pass.returned
    /\ hist.pass.now = MaxNow
    /\ \E k \in 1..Len(queue) : Decode(variant, queue[k]).createdAt = Undefined

\* where a processed record is when its pass returns: gone if it was
\* finalized and saved, in the list with its fields as they were if not
Lifecycle(k) ==
    IF PassLog[k].completed
    THEN PassLog[k].raw \notin Range(hist.pass.atReturn)
    ELSE PassLog[k].raw \in Range(hist.pass.atReturn)

\* C31 (refuted): a record a pass took up is removed when the pass returns
\* if its finalize and save succeeded, and is back in the queue unchanged if
\* either failed.
C31_RecordLifecycle ==
    (variant = "gated" /\ hist.pass.returned) =>
        \A k \in 1..Len(PassLog) : Lifecycle(k)

RecordLifecycleNoFault ==
    (variant = "gated" /\ hist.pass.returned /\ ~hist.pass.faulted) =>
        \A k \in 1..Len(PassLog) : Lifecycle(k)

\* a record whose finalize or save failed is gone when the pass returns
FailedRecordLost ==
    /\ variant = "gated"
    /\ hist.pass.returned
    /\ \E k \in 1..Len(PassLog) :
          ~PassLog[k].completed /\ PassLog[k].raw \notin Range(hist.pass.atReturn)

\* a record that was finalized and saved is still in the list
SavedRecordKept ==
    /\ variant = "gated"
    /\ hist.pass.returned
    /\ \E k \in 1..Len(PassLog) :
          PassLog[k].completed /\ PassLog[k].raw \in Range(hist.pass.atReturn)

QueueIds == [k \in 1..Len(queue) |-> queue[k].list[1].text.id]

\* every record id is in the list at most once
IdsAtMostOnce ==
    \A a, b \in 1..Len(queue) : QueueIds[a] = QueueIds[b] => a = b

\* once an invocation has returned, the records it completed and removed are
\* not in the list
CompletedStayRemoved ==
    /\ (pc = "idle" /\ hist.pass.returned) =>
          \A k \in 1..Len(completedIds) : ~InSeq(completedIds[k], QueueIds)
    /\ second.pc = "done" =>
          \A k \in 1..Len(second.completedIds) :
              ~InSeq(second.completedIds[k], QueueIds)

\* C32 (refuted): with two drain invocations overlapping, every record id is
\* in the queue at most once and a record removed as completed is not in the
\* queue again.
C32_OverlappingDrains == IdsAtMostOnce /\ CompletedStayRemoved

\* both invocations re-push the same survivor
SurvivorPushedTwice ==
    /\ Len(queue) = 2
    /\ QueueIds[1] = QueueIds[2]
    /\ pc = "idle" /\ second.pc = "done"

\* the second invocation pushes back a record the first completed and removed
CompletedReappears ==
    /\ pc = "idle" /\ hist.pass.returned
    /\ second.pc = "done"
    /\ \E k \in 1..Len(completedIds) : InSeq(completedIds[k], QueueIds)

====
